---- MODULE Spec2Model ----
(***************************************************************************)
(* rust8: a CHIP-8 interpreter.  State machine of src/cpu/cpu.rs (Chip8), *)
(* src/cpu/register.rs (Registers), src/cpu/memory.rs (Memory),           *)
(* src/cpu/keypad.rs (Keypad) and src/main.rs (main).                      *)
(*                                                                         *)
(* A Rust panic (array index out of bounds, arithmetic overflow in a      *)
(* build with overflow checks, an explicit panic!) ends the process; the  *)
(* model records it in `panicked` and keeps the state the panic left.     *)
(***************************************************************************)
EXTENDS Integers, Sequences, FiniteSets, TLC

VARIABLES
    chip8,            \* struct Chip8: reg, mem, keys, display, display_updated, next_step
    panicked,         \* the process has panicked (it runs no further)
    at,               \* position of main() / run() / _run_debug()
    mode,             \* "run" or "debug" (second command-line argument -d)
    rom,              \* bytes of the ROM file given on the command line
    overflow_checks,  \* build profile: TRUE = arithmetic overflow panics, FALSE = it wraps
    now,              \* PreciseTime::now(), in milliseconds
    start_time,       \* local start_time of run()
    end_time,         \* local end_time of run()
    diff,             \* local diff of run()
    queue,            \* events waiting in the SDL event pump
    host,             \* what the host will still do: events to come, clock ticks to come
    window,           \* what the renderer last presented, and how many times it presented
    pre,              \* history: chip8 as it was when the last cpu_cycle began
    last,             \* history: the last cpu_cycle: fetch address, instruction, outcome
    pre2,             \* history: pre of the cpu_cycle before the last
    last2,            \* history: last of the cpu_cycle before the last
    calls             \* history: the CALLs not yet returned from: return address, SP before

vars == <<chip8, panicked, at, mode, rom, overflow_checks, now, start_time, end_time,
          diff, queue, host, window, pre, last, pre2, last2, calls>>

----------------------------------------------------------------------------
(* Program constants *)

MEM_SIZE == 4096
ROM_ADDR == 512
FRAMES_PER_SECOND == 4000
SKIP_TICKS == 1000 \div FRAMES_PER_SECOND
STACK_LEN == 16
DISPLAY_W == 64
DISPLAY_H == 32

Byte == 0..255

----------------------------------------------------------------------------
(* Machine arithmetic on u8 / u16 values *)

Pow2(n) == 2^n

BitOf(v, i) == (v \div Pow2(i)) % 2

BitAnd8(a, b) ==
    LET bit(i) == BitOf(a, i) * BitOf(b, i)
    IN  bit(0) + 2*bit(1) + 4*bit(2) + 8*bit(3) + 16*bit(4) + 32*bit(5) + 64*bit(6) + 128*bit(7)

BitOr8(a, b) ==
    LET bit(i) == IF BitOf(a, i) + BitOf(b, i) > 0 THEN 1 ELSE 0
    IN  bit(0) + 2*bit(1) + 4*bit(2) + 8*bit(3) + 16*bit(4) + 32*bit(5) + 64*bit(6) + 128*bit(7)

(* A result of a step of the machine: the state it left and whether it panicked. *)
Ok(c) == [c |-> c, ok |-> TRUE]
Panic(c) == [c |-> c, ok |-> FALSE]

----------------------------------------------------------------------------
(* Memory: a 4096-byte array, kept as the map of its non-zero bytes. *)

MemAt(m, a) == IF a \in DOMAIN m THEN m[a] ELSE 0

MemPut(m, a, v) ==
    IF v = 0
    THEN [b \in (DOMAIN m) \ {a} |-> m[b]]
    ELSE [b \in (DOMAIN m) \cup {a} |-> IF b = a THEN v ELSE m[b]]

EmptyMem == [b \in {} |-> 0]

(* an index check that admits every u16 address *)
InMem_any_u16(address) == address < 65536

(* Memory::read_byte: self.mem[address as usize]; an index >= 4096 panics. *)
InMem(address) == address < MEM_SIZE

read_byte(c, address) == MemAt(c.mem, address)

(* Memory::write_byte *)
write_byte(c, address, new_byte) ==
    IF InMem(address)
    THEN Ok([c EXCEPT !.mem = MemPut(c.mem, address, new_byte)])
    ELSE Panic(c)

(* a load that begins one address too high *)
StoreBytes_off_by_one(c, bytes, addr) ==
    LET fits == IF addr + 1 + Len(bytes) <= MEM_SIZE THEN Len(bytes) ELSE MEM_SIZE - addr - 1
        written == {addr + k : k \in 1..fits}
        nonzero == {a \in written : bytes[a - addr] # 0}
        m == [a \in ((DOMAIN c.mem) \ written) \cup nonzero |->
                 IF a \in written THEN bytes[a - addr] ELSE c.mem[a]]
    IN  [c |-> [c EXCEPT !.mem = m], ok |-> fits = Len(bytes)]

(* a load that stores what fits and drops the rest without failing *)
StoreBytes_truncating(c, bytes, addr) ==
    LET fits == IF addr + Len(bytes) <= MEM_SIZE THEN Len(bytes) ELSE MEM_SIZE - addr
        written == {addr + k - 1 : k \in 1..fits}
        nonzero == {a \in written : bytes[a - addr + 1] # 0}
        m == [a \in ((DOMAIN c.mem) \ written) \cup nonzero |->
                 IF a \in written THEN bytes[a - addr + 1] ELSE c.mem[a]]
    IN  [c |-> [c EXCEPT !.mem = m], ok |-> TRUE]

(* Memory::store_program_data / Memory::load_fonts: for byte in file.bytes()
   { self.mem[addr] = b; addr += 1 }, from `addr` on; the loop panics at the
   first index >= 4096, with the bytes before it stored. *)
StoreBytes(c, bytes, addr) ==
    LET fits == IF addr + Len(bytes) <= MEM_SIZE THEN Len(bytes) ELSE MEM_SIZE - addr
        written == {addr + k - 1 : k \in 1..fits}
        nonzero == {a \in written : bytes[a - addr + 1] # 0}
        m == [a \in ((DOMAIN c.mem) \ written) \cup nonzero |->
                 IF a \in written THEN bytes[a - addr + 1] ELSE c.mem[a]]
    IN  [c |-> [c EXCEPT !.mem = m], ok |-> fits = Len(bytes)]

----------------------------------------------------------------------------
(* Registers *)

(* write_register keeping three bits of the register index *)
write_register_low_index(c, target_reg, data_value) ==
    [c EXCEPT !.reg.reg_gp[target_reg % 8] = data_value]

write_register(c, target_reg, data_value) ==
    [c EXCEPT !.reg.reg_gp[target_reg] = data_value]

write_register_i(c, data_value) == [c EXCEPT !.reg.reg_i = data_value]

write_delay_timer(c, data_value) == [c EXCEPT !.reg.reg_delay = data_value]

write_sound_timer(c, data_value) == [c EXCEPT !.reg.reg_sound = data_value]

read_register(c, target_reg) == c.reg.reg_gp[target_reg]

(* Registers::set_vf / clear_vf: register 15 := 1 / 0 *)
set_vf(c) == write_register(c, 15, 1)

clear_vf(c) == write_register(c, 15, 0)

(* Registers::increment_pc: self.reg_pc += 2 (u16) *)
increment_pc(c) ==
    IF c.reg.reg_pc + 2 < 65536
    THEN Ok([c EXCEPT !.reg.reg_pc = c.reg.reg_pc + 2])
    ELSE IF overflow_checks THEN Panic(c)
    ELSE Ok([c EXCEPT !.reg.reg_pc = (c.reg.reg_pc + 2) % 65536])

(* Registers::jump_to_address(addr, JumpType::NORMAL) *)
jump_normal(c, addr) == Ok([c EXCEPT !.reg.reg_pc = addr])

(* jump_to_address, SUBROUTINE, with the stack index taken modulo the stack length *)
jump_subroutine_wrapping(c, addr) ==
    Ok([c EXCEPT !.reg.stack[c.reg.reg_sp % STACK_LEN] = c.reg.reg_pc,
                 !.reg.reg_sp = (c.reg.reg_sp + 1) % 256,
                 !.reg.reg_pc = addr])

(* Registers::jump_to_address(addr, JumpType::SUBROUTINE):
   stack[reg_sp] = reg_pc (index >= 16 panics); reg_sp += 1; reg_pc = addr *)
jump_subroutine(c, addr) ==
    IF c.reg.reg_sp >= STACK_LEN THEN Panic(c)
    ELSE Ok([c EXCEPT !.reg.stack[c.reg.reg_sp] = c.reg.reg_pc,
                      !.reg.reg_sp = c.reg.reg_sp + 1,
                      !.reg.reg_pc = addr])

(* return_from_subroutine reading the slot at reg_sp instead of reg_sp - 1 *)
return_from_subroutine_wrong_slot(c) ==
    IF c.reg.reg_sp = 0 THEN Panic(c)
    ELSE Ok([c EXCEPT !.reg.reg_pc = c.reg.stack[c.reg.reg_sp % STACK_LEN],
                      !.reg.reg_sp = c.reg.reg_sp - 1])

(* return_from_subroutine with a wrapping stack pointer *)
return_from_subroutine_wrapping(c) ==
    Ok([c EXCEPT !.reg.reg_pc = c.reg.stack[(c.reg.reg_sp + 255) % STACK_LEN],
                 !.reg.reg_sp = (c.reg.reg_sp + 255) % 256])

(* Registers::return_from_subroutine:
   reg_pc = stack[(reg_sp - 1) as usize]; reg_sp -= 1.
   With reg_sp = 0 the u8 subtraction overflows: a panic with overflow checks,
   and without them the index is 255, out of the 16-entry stack: a panic too. *)
return_from_subroutine(c) ==
    IF c.reg.reg_sp = 0 THEN Panic(c)
    ELSE IF c.reg.reg_sp - 1 >= STACK_LEN THEN Panic(c)
    ELSE Ok([c EXCEPT !.reg.reg_pc = c.reg.stack[c.reg.reg_sp - 1],
                      !.reg.reg_sp = c.reg.reg_sp - 1])

----------------------------------------------------------------------------
(* Display: [[bool; 32]; 64], kept as the set of the cells <<x, y>> that are true. *)

(* Dxyn, the sprite bytes: bit_vec.push(read_byte(reg_i + i)) for i in 0..num_bytes *)
RECURSIVE SpriteBytes(_, _, _)
SpriteBytes(c, addr, num_bytes) ==
    IF num_bytes = 0 THEN <<>>
    ELSE <<read_byte(c, addr)>> \o SpriteBytes(c, addr + 1, num_bytes - 1)

SpriteInMem(addr, num_bytes) == \A i \in 0..(num_bytes - 1) : InMem(addr + i)

(* Dxyn, the column of bit i (bit 0 = least significant) of a sprite byte:
   x_index = x_value + (7 - i); if x_index > 63 { x_index = 69 - x_value }.
   -1 stands for the panic of 69 - x_value below zero (usize). *)
SpriteColumn(x_value, i) ==
    IF x_value + (7 - i) > 63
    THEN (IF x_value > 69 THEN -1 ELSE 69 - x_value)
    ELSE x_value + (7 - i)

(* Dxyn, the row: if y_index > 31 { y_index = y_index - 32 } *)
SpriteRow(y_index) == IF y_index > 31 THEN y_index - 32 ELSE y_index

(* DrawBit raising the flag for every cell found set, whatever the sprite bit *)
DrawBit_flags_set_cell(c, cell, bit_state) ==
    IF bit_state # (cell \in c.display)
    THEN [(IF cell \in c.display THEN set_vf(c) ELSE c) EXCEPT
             !.display = c.display \cup {cell}]
    ELSE IF cell \in c.display
    THEN [set_vf(c) EXCEPT !.display = c.display \ {cell}]
    ELSE c

(* Dxyn, one bit of the sprite against display[x_index][y_index]:
   if bit_state != display[x][y] { display[x][y] = true }
   else { if display[x][y] == true { set_vf() }; display[x][y] = false } *)
DrawBit(c, cell, bit_state) ==
    IF bit_state # (cell \in c.display)
    THEN [c EXCEPT !.display = c.display \cup {cell}]
    ELSE IF cell \in c.display
    THEN [set_vf(c) EXCEPT !.display = c.display \ {cell}]
    ELSE c

(* Dxyn, the inner loop `for i in 0..8` on one sprite byte, from bit i on.
   The result carries y_index, which the loop body rewrites. *)
RECURSIVE DrawRow(_, _, _, _, _)
DrawRow(c, byte, x_value, y_index, i) ==
    IF i >= 8 THEN [c |-> c, ok |-> TRUE, y_index |-> y_index]
    ELSE LET x_index == SpriteColumn(x_value, i)
             y1 == SpriteRow(y_index)
         IN  IF x_index < 0 \/ x_index >= DISPLAY_W \/ y1 >= DISPLAY_H
             THEN [c |-> c, ok |-> FALSE, y_index |-> y1]
             ELSE DrawRow(DrawBit(c, <<x_index, y1>>, BitOf(byte, i) = 1),
                          byte, x_value, y1, i + 1)

(* Dxyn, the outer loop `for byte in bit_vec`, from byte k on: y_index += 1
   after each byte. *)
RECURSIVE DrawSprite(_, _, _, _, _)
DrawSprite(c, bit_vec, x_value, y_index, k) ==
    IF k > Len(bit_vec) THEN Ok(c)
    ELSE LET r == DrawRow(c, bit_vec[k], x_value, y_index, 0)
         IN  IF r.ok THEN DrawSprite(r.c, bit_vec, x_value, r.y_index + 1, k + 1)
             ELSE Panic(r.c)

(* opcode Dxyn *)
op_drw(c, reg_one, reg_two, num_bytes) ==
    LET sprite_x == read_register(c, reg_one)
        sprite_y == read_register(c, reg_two)
    IN  IF ~SpriteInMem(c.reg.reg_i, num_bytes) THEN Panic(c)
        ELSE LET bit_vec == SpriteBytes(c, c.reg.reg_i, num_bytes)
                 r == DrawSprite(clear_vf(c), bit_vec, sprite_x, sprite_y, 1)
             IN  IF r.ok THEN Ok([r.c EXCEPT !.display_updated = TRUE]) ELSE r

----------------------------------------------------------------------------
(* process_instruction: the fields of an instruction word *)

OpType(instruction) == instruction \div 4096
NibX(instruction) == (instruction \div 256) % 16
NibY(instruction) == (instruction \div 16) % 16
NibN(instruction) == instruction % 16
LowByte(instruction) == instruction % 256
Addr12(instruction) == instruction % 4096

(* a skip: if the condition holds, increment_pc() once more *)
(* a skip taken when the condition fails *)
skip_if_inverted(c, cond) == IF cond THEN Ok(c) ELSE increment_pc(c)

skip_if(c, cond) == IF cond THEN increment_pc(c) ELSE Ok(c)

(* family 0x0: 00E0 cls, 00EE ret, anything else is ignored *)
op_0(c, instruction) ==
    IF LowByte(instruction) = 224
    THEN Ok([c EXCEPT !.display = {}, !.display_updated = TRUE])
    ELSE IF LowByte(instruction) = 238
    THEN return_from_subroutine(c)
    ELSE Ok(c)

(* 8xy3: if Vy > Vx { VF = 1 }; Vx = Vy - Vx (a plain u8 subtraction) *)
op_8xy3(c, reg_one, reg_two) ==
    LET reg_one_value == read_register(c, reg_one)
        reg_two_value == read_register(c, reg_two)
        c1 == IF reg_two_value > reg_one_value THEN write_register(c, 15, 1) ELSE c
    IN  IF reg_two_value >= reg_one_value
        THEN Ok(write_register(c1, reg_one, reg_two_value - reg_one_value))
        ELSE IF overflow_checks THEN Panic(c1)
        ELSE Ok(write_register(c1, reg_one, (reg_two_value - reg_one_value) % 256))

(* 8xy4 that raises VF on a carry and leaves it alone otherwise *)
op_8xy4_flag_never_cleared(c, reg_one, reg_two) ==
    LET reg_one_value == read_register(c, reg_one)
        reg_two_value == read_register(c, reg_two)
        result == reg_one_value + reg_two_value
        c1 == IF result > 255 THEN set_vf(c) ELSE c
    IN  Ok(write_register(c1, reg_one, result % 256))

(* 8xy4: result: u32 = Vx + Vy; set_vf / clear_vf on result > 255; Vx = result as u8 *)
op_8xy4(c, reg_one, reg_two) ==
    LET reg_one_value == read_register(c, reg_one)
        reg_two_value == read_register(c, reg_two)
        result == reg_one_value + reg_two_value
        c1 == IF result > 255 THEN set_vf(c) ELSE clear_vf(c)
    IN  Ok(write_register(c1, reg_one, result % 256))

(* 8xy5 that takes "no borrow" to include equal operands *)
op_8xy5_flag_on_equal(c, reg_one, reg_two) ==
    LET reg_one_value == read_register(c, reg_one)
        reg_two_value == read_register(c, reg_two)
        c1 == IF reg_one_value >= reg_two_value THEN set_vf(c) ELSE clear_vf(c)
    IN  Ok(write_register(c1, reg_one, (reg_one_value - reg_two_value) % 256))

(* 8xy5: set_vf / clear_vf on Vx > Vy; Vx = Vx.wrapping_sub(Vy) *)
op_8xy5(c, reg_one, reg_two) ==
    LET reg_one_value == read_register(c, reg_one)
        reg_two_value == read_register(c, reg_two)
        c1 == IF reg_one_value > reg_two_value THEN set_vf(c) ELSE clear_vf(c)
    IN  Ok(write_register(c1, reg_one, (reg_one_value - reg_two_value) % 256))

(* 8xy6: set_vf / clear_vf on bit 0 of Vx; Vx = Vx >> 1 *)
op_8xy6(c, reg_one) ==
    LET reg_one_value == read_register(c, reg_one)
        c1 == IF BitOf(reg_one_value, 0) = 1 THEN set_vf(c) ELSE clear_vf(c)
    IN  Ok(write_register(c1, reg_one, reg_one_value \div 2))

(* 8xy7: set_vf / clear_vf on Vy > Vx; Vx = Vy.wrapping_sub(Vx) *)
op_8xy7(c, reg_one, reg_two) ==
    LET reg_one_value == read_register(c, reg_one)
        reg_two_value == read_register(c, reg_two)
        c1 == IF reg_two_value > reg_one_value THEN set_vf(c) ELSE clear_vf(c)
    IN  Ok(write_register(c1, reg_one, (reg_two_value - reg_one_value) % 256))

(* 8xyE that takes the flag from bit 0 *)
op_8xye_flag_from_low_bit(c, reg_one) ==
    LET reg_one_value == read_register(c, reg_one)
        c1 == IF BitOf(reg_one_value, 0) = 1 THEN set_vf(c) ELSE clear_vf(c)
    IN  Ok(write_register(c1, reg_one, (reg_one_value * 2) % 256))

(* 8xyE: set_vf / clear_vf on bit 7 of Vx; Vx = Vx << 1 *)
op_8xye(c, reg_one) ==
    LET reg_one_value == read_register(c, reg_one)
        c1 == IF BitOf(reg_one_value, 7) = 1 THEN set_vf(c) ELSE clear_vf(c)
    IN  Ok(write_register(c1, reg_one, (reg_one_value * 2) % 256))

(* family 0x8 *)
op_8(c, instruction) ==
    LET reg_one == NibX(instruction)
        reg_two == NibY(instruction)
        operation == NibN(instruction)
        reg_one_value == read_register(c, reg_one)
        reg_two_value == read_register(c, reg_two)
    IN  CASE operation = 0 -> Ok(write_register(c, reg_one, reg_two_value))
          [] operation = 1 -> Ok(write_register(c, reg_one, BitOr8(reg_one_value, reg_two_value)))
          [] operation = 2 -> Ok(write_register(c, reg_one, BitAnd8(reg_one_value, reg_two_value)))
          [] operation = 3 -> op_8xy3(c, reg_one, reg_two)
          [] operation = 4 -> op_8xy4(c, reg_one, reg_two)
          [] operation = 5 -> op_8xy5(c, reg_one, reg_two)
          [] operation = 6 -> op_8xy6(c, reg_one)
          [] operation = 7 -> op_8xy7(c, reg_one, reg_two)
          [] operation = 14 -> op_8xye(c, reg_one)
          [] OTHER -> Panic(c)

(* family 0xE that indexes the keypad with the low nibble of Vx *)
op_e_masks_key(c, instruction) ==
    LET optype == LowByte(instruction)
        key == read_register(c, NibX(instruction)) % 16
    IN  IF optype \notin {158, 161} THEN Panic(c)
        ELSE skip_if(c, c.keys[key] = (optype = 158))

(* family 0xE that tests the key named by the operand x, not by Vx *)
op_e_key_from_operand(c, instruction) ==
    LET optype == LowByte(instruction)
        key == read_register(c, NibX(instruction))
    IN  IF optype \notin {158, 161} THEN Panic(c)
        ELSE IF key > 15 THEN Panic(c)
        ELSE skip_if(c, c.keys[NibX(instruction)] = (optype = 158))

(* family 0xE: Ex9E skp, ExA1 sknp; keys.keys[key as usize] panics for key > 15 *)
op_e(c, instruction) ==
    LET optype == LowByte(instruction)
        key == read_register(c, NibX(instruction))
    IN  IF optype \notin {158, 161} THEN Panic(c)
        ELSE IF key > 15 THEN Panic(c)
        ELSE skip_if(c, c.keys[key] = (optype = 158))

(* Fx33 storing the ones digit first *)
op_fx33_ones_first(c, register_index) ==
    LET reg_value == read_register(c, register_index)
        ones_digit == reg_value % 10
        tens_digit == (reg_value \div 10) % 10
        hundreds_digit == ((reg_value \div 10) \div 10) % 10
        r1 == write_byte(c, c.reg.reg_i, ones_digit)
        r2 == write_byte(r1.c, c.reg.reg_i + 1, tens_digit)
    IN  IF ~r1.ok THEN r1
        ELSE IF ~r2.ok THEN r2
        ELSE write_byte(r2.c, c.reg.reg_i + 2, hundreds_digit)

(* Fx33: hundreds, tens, ones of Vx to mem[I], mem[I+1], mem[I+2] *)
op_fx33(c, register_index) ==
    LET reg_value == read_register(c, register_index)
        ones_digit == reg_value % 10
        tens_digit == (reg_value \div 10) % 10
        hundreds_digit == ((reg_value \div 10) \div 10) % 10
        r1 == write_byte(c, c.reg.reg_i, hundreds_digit)
        r2 == write_byte(r1.c, c.reg.reg_i + 1, tens_digit)
    IN  IF ~r1.ok THEN r1
        ELSE IF ~r2.ok THEN r2
        ELSE write_byte(r2.c, c.reg.reg_i + 2, ones_digit)

(* Fx55: for n in 0..num_reg { write_byte(mem_addr + n, read_register(n)) } *)
RECURSIVE op_fx55(_, _, _, _)
op_fx55(c, num_reg, mem_addr, n) ==
    IF n >= num_reg THEN Ok(c)
    ELSE LET r == write_byte(c, mem_addr + n, read_register(c, n))
         IN  IF r.ok THEN op_fx55(r.c, num_reg, mem_addr, n + 1) ELSE r

(* Fx65 with the range of Fx55: registers 0 .. register_index - 1 *)
RECURSIVE op_fx65_exclusive(_, _, _, _)
op_fx65_exclusive(c, register_index, mem_addr, n) ==
    IF n >= register_index THEN Ok(c)
    ELSE IF ~InMem(mem_addr + n) THEN Panic(c)
    ELSE op_fx65_exclusive(write_register(c, n, read_byte(c, mem_addr + n)),
                           register_index, mem_addr, n + 1)

(* Fx65: for n in 0..(register_index + 1) { write_register(n, read_byte(mem_addr + n)) } *)
RECURSIVE op_fx65(_, _, _, _)
op_fx65(c, register_index, mem_addr, n) ==
    IF n >= register_index + 1 THEN Ok(c)
    ELSE IF ~InMem(mem_addr + n) THEN Panic(c)
    ELSE op_fx65(write_register(c, n, read_byte(c, mem_addr + n)),
                 register_index, mem_addr, n + 1)

(* Fx1E that reports in VF whether I left the 12-bit address range *)
op_fx1e_flags_range_overflow(c, register_index) ==
    LET sum == read_register(c, register_index) + c.reg.reg_i
        c1 == write_register(c, 15, IF sum > 4095 THEN 1 ELSE 0)
    IN  IF sum < 65536 THEN Ok(write_register_i(c1, sum))
        ELSE IF overflow_checks THEN Panic(c)
        ELSE Ok(write_register_i(c1, sum % 65536))

(* Fx1E: write_register_i((reg_value as u16) + i_value) *)
op_fx1e(c, register_index) ==
    LET sum == read_register(c, register_index) + c.reg.reg_i
    IN  IF sum < 65536 THEN Ok(write_register_i(c, sum))
        ELSE IF overflow_checks THEN Panic(c)
        ELSE Ok(write_register_i(c, sum % 65536))

(* Fx29 for glyphs four bytes apart *)
op_fx29_four_byte_glyphs(c, register_index) ==
    LET reg_value == read_register(c, register_index)
    IN  IF reg_value <= 15 THEN Ok(write_register_i(c, 4 * reg_value)) ELSE Panic(c)

(* Fx29: match reg_value { 0 => I = 0x0, 1 => I = 0x5, ..., 0xf => I = 0x4b, _ => panic } *)
op_fx29(c, register_index) ==
    LET reg_value == read_register(c, register_index)
        table == <<0, 5, 10, 15, 20, 25, 30, 35, 40, 45, 50, 55, 60, 65, 70, 75>>
    IN  IF reg_value <= 15 THEN Ok(write_register_i(c, table[reg_value + 1])) ELSE Panic(c)

(* family 0xF *)
op_f(c, instruction) ==
    LET operation == LowByte(instruction)
        register_index == NibX(instruction)
    IN  CASE operation = 7 -> Ok(write_register(c, register_index, c.reg.reg_delay))
          [] operation = 21 -> Ok(write_delay_timer(c, read_register(c, register_index)))
          [] operation = 24 -> Ok(write_sound_timer(c, read_register(c, register_index)))
          [] operation = 30 -> op_fx1e(c, register_index)
          [] operation = 41 -> op_fx29(c, register_index)
          [] operation = 51 -> op_fx33(c, register_index)
          [] operation = 85 -> op_fx55(c, register_index, c.reg.reg_i, 0)
          [] operation = 101 -> op_fx65(c, register_index, c.reg.reg_i, 0)
          [] OTHER -> Panic(c)

(* 7xkk that reports the carry in VF as 8xy4 does *)
op_7xkk_sets_carry(c, target_reg, immediate_value) ==
    LET reg_value == read_register(c, target_reg)
        c1 == IF immediate_value + reg_value > 255 THEN set_vf(c) ELSE clear_vf(c)
    IN  Ok(write_register(c1, target_reg, (immediate_value + reg_value) % 256))

(* 7xkk: write_register(target_reg, immediate_value.wrapping_add(reg_value)) *)
op_7xkk(c, target_reg, immediate_value) ==
    LET reg_value == read_register(c, target_reg)
    IN  Ok(write_register(c, target_reg, (immediate_value + reg_value) % 256))

(* Chip8::process_instruction; rand_num is the byte rand::random() returns *)
process_instruction(c, instruction, rand_num) ==
    LET op_type == OpType(instruction)
        x == NibX(instruction)
        y == NibY(instruction)
        kk == LowByte(instruction)
    IN  CASE op_type = 0 -> op_0(c, instruction)
          [] op_type = 1 -> jump_normal(c, Addr12(instruction))
          [] op_type = 2 -> jump_subroutine(c, Addr12(instruction))
          [] op_type = 3 -> skip_if(c, read_register(c, x) = kk)
          [] op_type = 4 -> skip_if(c, read_register(c, x) # kk)
          [] op_type = 5 -> skip_if(c, read_register(c, x) = read_register(c, y))
          [] op_type = 6 -> Ok(write_register(c, x, kk))
          [] op_type = 7 -> op_7xkk(c, x, kk)
          [] op_type = 8 -> op_8(c, instruction)
          [] op_type = 9 -> skip_if(c, read_register(c, x) # read_register(c, y))
          [] op_type = 10 -> Ok(write_register_i(c, Addr12(instruction)))
          [] op_type = 11 -> jump_normal(c, Addr12(instruction) + read_register(c, 0))
          [] op_type = 12 -> Ok(write_register(c, x, BitAnd8(kk, rand_num)))
          [] op_type = 13 -> op_drw(c, x, y, NibN(instruction))
          [] op_type = 14 -> op_e(c, instruction)
          [] OTHER -> op_f(c, instruction)

(* read_word with the two bytes combined low byte first *)
read_word_little_endian(c) ==
    IF ~InMem(c.reg.reg_pc) \/ ~InMem(c.reg.reg_pc + 1)
    THEN [c |-> c, ok |-> FALSE, word |-> 0]
    ELSE LET r == increment_pc(c)
         IN  [c |-> r.c, ok |-> r.ok,
              word |-> read_byte(c, c.reg.reg_pc + 1) * 256 + read_byte(c, c.reg.reg_pc)]

(* Chip8::read_word: the two bytes at reg_pc and reg_pc + 1, high byte first,
   then increment_pc().  r.word is the instruction. *)
read_word(c) ==
    IF ~InMem(c.reg.reg_pc) \/ ~InMem(c.reg.reg_pc + 1)
    THEN [c |-> c, ok |-> FALSE, word |-> 0]
    ELSE LET instruction_high_order == read_byte(c, c.reg.reg_pc) * 256
             instruction_low_order == read_byte(c, c.reg.reg_pc + 1)
             r == increment_pc(c)
         IN  [c |-> r.c, ok |-> r.ok, word |-> instruction_high_order + instruction_low_order]

----------------------------------------------------------------------------
(* Input: Chip8::handle_input *)

KeyNames == {"Num1", "Num2", "Num3", "Num4", "Q", "W", "E", "R",
             "A", "S", "D", "F", "Z", "X", "C", "V"}

(* host keys bound to the keypad in reading order: 1 2 3 4 Q W ... V to 0 .. 15 *)
KeyIndex_reading_order(keycode) ==
    CASE keycode = "Num1" -> 0  [] keycode = "Num2" -> 1  [] keycode = "Num3" -> 2
      [] keycode = "Num4" -> 3  [] keycode = "Q" -> 4     [] keycode = "W" -> 5
      [] keycode = "E" -> 6     [] keycode = "R" -> 7     [] keycode = "A" -> 8
      [] keycode = "S" -> 9     [] keycode = "D" -> 10    [] keycode = "F" -> 11
      [] keycode = "Z" -> 12    [] keycode = "X" -> 13    [] keycode = "C" -> 14
      [] keycode = "V" -> 15

(* the keypad index a host key is bound to *)
KeyIndex(keycode) ==
    CASE keycode = "Num1" -> 1  [] keycode = "Num2" -> 2  [] keycode = "Num3" -> 3
      [] keycode = "Num4" -> 12 [] keycode = "Q" -> 4     [] keycode = "W" -> 5
      [] keycode = "E" -> 6     [] keycode = "R" -> 13    [] keycode = "A" -> 7
      [] keycode = "S" -> 8     [] keycode = "D" -> 9     [] keycode = "F" -> 14
      [] keycode = "Z" -> 10    [] keycode = "X" -> 0     [] keycode = "C" -> 11
      [] keycode = "V" -> 15

KeyDown(keycode) == [kind |-> "KeyDown", keycode |-> keycode]
KeyUp(keycode) == [kind |-> "KeyUp", keycode |-> keycode]
QuitEvent == [kind |-> "Quit", keycode |-> "None"]

IsQuit(event) ==
    event.kind = "Quit" \/ (event.kind = "KeyDown" /\ event.keycode = "Escape")

(* the match of handle_input with every key press releasing a step *)
apply_event_any_key_steps(c, event) ==
    IF event.kind = "KeyDown" /\ event.keycode \in KeyNames
    THEN [c EXCEPT !.keys[KeyIndex(event.keycode)] = TRUE, !.next_step = TRUE]
    ELSE IF event.kind = "KeyUp" /\ event.keycode \in KeyNames
    THEN [c EXCEPT !.keys[KeyIndex(event.keycode)] = FALSE]
    ELSE IF event.kind = "KeyDown" /\ event.keycode = "K"
    THEN [c EXCEPT !.next_step = TRUE]
    ELSE c

(* one arm of the match in handle_input (the arms that do not return) *)
apply_event(c, event) ==
    IF event.kind = "KeyDown" /\ event.keycode \in KeyNames
    THEN [c EXCEPT !.keys[KeyIndex(event.keycode)] = TRUE]
    ELSE IF event.kind = "KeyUp" /\ event.keycode \in KeyNames
    THEN [c EXCEPT !.keys[KeyIndex(event.keycode)] = FALSE]
    ELSE IF event.kind = "KeyDown" /\ event.keycode = "K"
    THEN [c EXCEPT !.next_step = TRUE]
    ELSE c

(* handle_input that takes Escape for an ordinary key *)
RECURSIVE handle_input_window_close_only(_, _)
handle_input_window_close_only(c, events) ==
    IF events = <<>> THEN [c |-> c, quit |-> FALSE, rest |-> <<>>]
    ELSE IF Head(events).kind = "Quit" THEN [c |-> c, quit |-> TRUE, rest |-> Tail(events)]
    ELSE handle_input_window_close_only(apply_event(c, Head(events)), Tail(events))

(* handle_input: for event in poll_iter() { ... }; a quit event returns true at
   once and leaves the later events in the pump. *)
RECURSIVE handle_input(_, _)
handle_input(c, events) ==
    IF events = <<>> THEN [c |-> c, quit |-> FALSE, rest |-> <<>>]
    ELSE IF IsQuit(Head(events)) THEN [c |-> c, quit |-> TRUE, rest |-> Tail(events)]
    ELSE handle_input(apply_event(c, Head(events)), Tail(events))

----------------------------------------------------------------------------
(* Construction *)

RegistersNew ==
    [reg_gp |-> [r \in 0..15 |-> 0], reg_i |-> 0, reg_delay |-> 0, reg_sound |-> 0,
     reg_pc |-> ROM_ADDR, reg_sp |-> 0, stack |-> [s \in 0..(STACK_LEN - 1) |-> 0]]

Chip8New ==
    [reg |-> RegistersNew, mem |-> EmptyMem, keys |-> [k \in 0..15 |-> FALSE],
     display |-> {}, display_updated |-> FALSE, next_step |-> FALSE]

NoCall == [ret |-> -1, sp |-> -1]

NoCycle == [pc |-> 0, fetched |-> FALSE, instruction |-> 0, ok |-> FALSE, popped |-> NoCall]

IsCall(instruction) == OpType(instruction) = 2

IsRet(instruction) == OpType(instruction) = 0 /\ LowByte(instruction) = 238

(* ./font.bin: 16 glyphs of 5 bytes, digits 0..F *)
FontBin ==
    <<240, 144, 144, 144, 240,   32, 96, 32, 32, 112,    240, 16, 240, 128, 240,
      240, 16, 240, 16, 240,     144, 144, 240, 16, 16,  240, 128, 240, 16, 240,
      240, 128, 240, 144, 240,   240, 16, 32, 64, 64,    240, 144, 240, 144, 240,
      240, 144, 240, 16, 240,    240, 144, 240, 144, 144, 224, 144, 224, 144, 224,
      240, 128, 128, 128, 240,   224, 144, 144, 144, 224, 240, 128, 240, 128, 240,
      240, 128, 240, 128, 128>>

(* the random bytes a run may draw *)
RandBytes == {0, 165, 255}

(* the state main() is in once Chip8::new() has returned *)
InitState(roms, modes, builds, hosts) ==
    /\ chip8 = Chip8New
    /\ panicked = FALSE
    /\ at = "store_program_data"
    /\ rom \in roms
    /\ mode \in modes
    /\ overflow_checks \in builds
    /\ host \in hosts
    /\ now = 0
    /\ start_time = 0
    /\ end_time = 0
    /\ diff = 0
    /\ queue = <<>>
    /\ window = {}
    /\ pre = Chip8New
    /\ last = NoCycle
    /\ pre2 = Chip8New
    /\ last2 = NoCycle
    /\ calls = <<>>

----------------------------------------------------------------------------
(* Actions *)

(* main: chip8_emu.store_program_data(rom_file) *)
StoreProgramData ==
    /\ at = "store_program_data"
    /\ LET r == StoreBytes(chip8, rom, ROM_ADDR)
       IN  /\ chip8' = r.c
           /\ panicked' = ~r.ok
           /\ at' = IF r.ok THEN "init_display" ELSE "panic"
    /\ UNCHANGED <<mode, rom, overflow_checks, now, start_time, end_time, diff, queue,
                   host, window, pre, last, pre2, last2, calls>>

(* main: chip8_emu.init_display(): load_fonts(), then a cleared window is presented *)
InitDisplay ==
    /\ at = "init_display"
    /\ LET r == StoreBytes(chip8, FontBin, 0)
       IN  /\ chip8' = r.c
           /\ panicked' = ~r.ok
           /\ at' = IF r.ok THEN "run" ELSE "panic"
    /\ window' = {}
    /\ UNCHANGED <<mode, rom, overflow_checks, now, start_time, end_time, diff, queue,
                   host, pre, last, pre2, last2, calls>>

(* run() / _run_debug(): let mut start_time = PreciseTime::now() *)
EnterRun ==
    /\ at = "run"
    /\ start_time' = now
    /\ at' = "top"
    /\ UNCHANGED <<chip8, panicked, mode, rom, overflow_checks, now, end_time, diff,
                   queue, host, window, pre, last, pre2, last2, calls>>

(* top of the loop: end_time = now(); diff = start_time.to(end_time).num_milliseconds() *)
LoopTop ==
    /\ at = "top"
    /\ end_time' = now
    /\ diff' = now - start_time
    /\ at' = IF mode = "debug" THEN "wait" ELSE "cycle"
    /\ UNCHANGED <<chip8, panicked, mode, rom, overflow_checks, now, start_time,
                   queue, host, window, pre, last, pre2, last2, calls>>

(* _run_debug: the loop `while !self._next_step` is left; self._next_step = false *)
AwaitStep ==
    /\ at = "wait"
    /\ chip8.next_step
    /\ chip8' = [chip8 EXCEPT !.next_step = FALSE]
    /\ at' = "cycle"
    /\ UNCHANGED <<panicked, mode, rom, overflow_checks, now, start_time, end_time,
                   diff, queue, host, window, pre, last, pre2, last2, calls>>

(* cpu_cycle(): read_word() then process_instruction() *)
CpuCycle ==
    /\ at = "cycle"
    /\ \E rand_num \in RandBytes :
         LET f == read_word(chip8)
             r == IF f.ok THEN process_instruction(f.c, f.word, rand_num)
                          ELSE Panic(f.c)
         IN  /\ chip8' = r.c
             /\ panicked' = ~r.ok
             /\ last' = [pc |-> chip8.reg.reg_pc, fetched |-> f.ok,
                         instruction |-> f.word, ok |-> r.ok,
                         popped |-> IF f.ok /\ r.ok /\ IsRet(f.word) /\ calls # <<>>
                                    THEN calls[Len(calls)] ELSE NoCall]
             /\ calls' = IF f.ok /\ r.ok /\ IsCall(f.word)
                            THEN Append(calls, [ret |-> chip8.reg.reg_pc + 2,
                                                sp |-> chip8.reg.reg_sp])
                          ELSE IF f.ok /\ r.ok /\ IsRet(f.word) /\ calls # <<>>
                            THEN SubSeq(calls, 1, Len(calls) - 1)
                          ELSE calls
             /\ at' = IF ~r.ok THEN "panic"
                      ELSE IF mode = "debug" /\ r.c.display_updated THEN "render"
                      ELSE "input"
    /\ pre' = chip8
    /\ pre2' = pre
    /\ last2' = last
    /\ UNCHANGED <<mode, rom, overflow_checks, now, start_time, end_time, diff, queue,
                   host, window>>

(* quit = self.handle_input(); if quit == true { break 'running } *)
HandleInput ==
    /\ at \in {"input", "wait"}
    /\ at = "wait" => ~chip8.next_step
    /\ LET r == handle_input(chip8, queue)
       IN  /\ chip8' = r.c
           /\ queue' = r.rest
           /\ at' = IF r.quit THEN "exit" ELSE IF at = "wait" THEN "wait" ELSE "timers"
    /\ UNCHANGED <<panicked, mode, rom, overflow_checks, now, start_time, end_time,
                   diff, host, window, pre, last, pre2, last2, calls>>

(* the timer update with no test for zero: a timer at 0 goes to 255 *)
TimerStep_wrapping ==
    /\ at = "timers"
    /\ IF diff >= SKIP_TICKS
       THEN /\ start_time' = end_time
            /\ chip8' = [chip8 EXCEPT
                 !.reg.reg_delay = (@ + 255) % 256,
                 !.reg.reg_sound = (@ + 255) % 256]
       ELSE UNCHANGED <<start_time, chip8>>
    /\ at' = IF mode = "debug" THEN "top" ELSE "render"
    /\ UNCHANGED <<panicked, mode, rom, overflow_checks, now, end_time, diff, queue,
                   host, window, pre, last, pre2, last2, calls>>

(* if diff >= SKIP_TICKS { start_time = end_time; the two timers count down } *)
TimerStep ==
    /\ at = "timers"
    /\ IF diff >= SKIP_TICKS
       THEN /\ start_time' = end_time
            /\ chip8' = [chip8 EXCEPT
                 !.reg.reg_delay = IF @ > 0 THEN @ - 1 ELSE @,
                 !.reg.reg_sound = IF @ > 0 THEN @ - 1 ELSE @]
       ELSE UNCHANGED <<start_time, chip8>>
    /\ at' = IF mode = "debug" THEN "top" ELSE "render"
    /\ UNCHANGED <<panicked, mode, rom, overflow_checks, now, end_time, diff, queue,
                   host, window, pre, last, pre2, last2, calls>>

(* render(): the display is presented; display_updated = false *)
Render ==
    /\ at = "render"
    /\ window' = chip8.display
    /\ chip8' = [chip8 EXCEPT !.display_updated = FALSE]
    /\ at' = IF mode = "debug" THEN "input" ELSE "top"
    /\ UNCHANGED <<panicked, mode, rom, overflow_checks, now, start_time, end_time,
                   diff, queue, host, pre, last, pre2, last2, calls>>

(* the host delivers its next event to the SDL event pump *)
HostEvent ==
    /\ at \notin {"exit", "panic"}
    /\ host.events # <<>>
    /\ queue' = Append(queue, Head(host.events))
    /\ host' = [host EXCEPT !.events = Tail(host.events)]
    /\ UNCHANGED <<chip8, panicked, at, mode, rom, overflow_checks, now, start_time,
                   end_time, diff, window, pre, last, pre2, last2, calls>>

(* a millisecond passes *)
ClockTick ==
    /\ at \notin {"exit", "panic"}
    /\ host.ticks > 0
    /\ now' = now + 1
    /\ host' = [host EXCEPT !.ticks = host.ticks - 1]
    /\ UNCHANGED <<chip8, panicked, at, mode, rom, overflow_checks, start_time,
                   end_time, diff, queue, window, pre, last, pre2, last2, calls>>

Next ==
    \/ StoreProgramData
    \/ InitDisplay
    \/ EnterRun
    \/ LoopTop
    \/ AwaitStep
    \/ CpuCycle
    \/ HandleInput
    \/ TimerStep
    \/ Render
    \/ HostEvent
    \/ ClockTick

----------------------------------------------------------------------------
(* ROM images and host behaviours the model is run on *)

MaxNest == 17
MaxHostEvents == 3
MaxTicks == 1

W(word) == <<word \div 256, word % 256>>
Ins(a, x, y, n) == W(a * 4096 + x * 256 + y * 16 + n)
InsKK(a, x, kk) == W(a * 4096 + x * 256 + kk)
InsAddr(a, nnn) == W(a * 4096 + nnn)
RetIns == W(238)
ClsIns == W(224)

RECURSIVE Flatten(_)
Flatten(ss) == IF ss = <<>> THEN <<>> ELSE Head(ss) \o Flatten(Tail(ss))

(* k nested subroutines: 0x200 calls the first, each calls the next and returns *)
NestRom(k) ==
    LET sub(j) == ROM_ADDR + 4 * j
    IN  IF k = 0 THEN InsAddr(1, ROM_ADDR)
        ELSE InsAddr(2, sub(1)) \o InsAddr(1, ROM_ADDR + 2)
             \o Flatten([j \in 1..k |->
                    IF j < k THEN InsAddr(2, sub(j + 1)) \o RetIns
                    ELSE RetIns \o RetIns])

FlowRoms ==
    {NestRom(k) : k \in 0..MaxNest}
    \cup {InsAddr(2, ROM_ADDR),                                  \* endless recursion
          RetIns,                                                \* RET at once
          InsAddr(2, ROM_ADDR + 4) \o RetIns \o RetIns,          \* CALL, RET, RET
          InsKK(6, 0, 4) \o InsAddr(11, ROM_ADDR) \o InsAddr(2, ROM_ADDR + 8)
              \o RetIns \o InsKK(3, 0, 4) \o RetIns \o InsAddr(1, ROM_ADDR + 6),
          InsAddr(1, 4095),                                      \* jump to the last byte
          InsKK(6, 0, 255) \o InsAddr(11, 4095)}                 \* jump beyond memory

(* a program that goes through every family of opcodes *)
TourRom ==
    Flatten(<<InsKK(6, 0, 5), InsKK(7, 0, 254), Ins(8, 1, 0, 0), Ins(8, 1, 0, 1),
              Ins(8, 1, 0, 2), Ins(8, 2, 1, 4), Ins(8, 2, 0, 5), Ins(8, 2, 0, 6),
              Ins(8, 2, 0, 7), Ins(8, 2, 0, 14), InsKK(3, 0, 3), W(291),
              InsKK(4, 0, 3), Ins(5, 0, 1, 0), Ins(9, 0, 1, 0), InsAddr(10, 5),
              InsKK(12, 3, 15), Ins(13, 0, 3, 5), InsKK(14, 4, 158), InsKK(14, 4, 161),
              InsKK(15, 0, 21), InsKK(15, 0, 24), InsKK(15, 5, 7), InsKK(15, 0, 30),
              InsKK(15, 0, 41), InsAddr(10, 768), InsKK(15, 0, 51), InsKK(15, 2, 85),
              InsKK(15, 2, 101), ClsIns, InsAddr(2, ROM_ADDR + 64), InsAddr(1, ROM_ADDR + 62),
              RetIns>>)

(* a short program for runs in which the host acts *)
HostRom ==
    Flatten(<<InsKK(6, 0, 2), InsKK(15, 0, 21), InsAddr(10, 0), Ins(13, 1, 1, 5),
              InsKK(14, 1, 158), InsAddr(1, ROM_ADDR + 8), InsAddr(1, ROM_ADDR + 8)>>)

NoHost == [events |-> <<>>, ticks |-> 0]

(* the host steps the debugger, presses the key X, closes the window, and again *)
HostPattern == <<KeyDown("K"), KeyDown("X"), QuitEvent>>

HostScripts ==
    {[events |-> [k \in 1..n |-> HostPattern[((k - 1) % Len(HostPattern)) + 1]],
      ticks |-> 0] : n \in 0..MaxHostEvents}
    \cup {[events |-> <<>>, ticks |-> t] : t \in 0..MaxTicks}
    \cup {[events |-> <<KeyDown("K")>>, ticks |-> 1]}
    \cup {[events |-> <<KeyDown("K"), KeyUp("X"), KeyDown("K")>>, ticks |-> 0],
          [events |-> <<KeyDown("Escape")>>, ticks |-> 0],
          [events |-> <<KeyDown("K"), KeyDown("K"), KeyDown("K"), KeyDown("K"), QuitEvent>>,
           ticks |-> 0]}

(* runs every specification includes: each step of both loops happens in them *)
InitTour ==
    \/ InitState({TourRom}, {"run"}, {TRUE, FALSE}, {NoHost})
    \/ InitState({HostRom}, {"run", "debug"}, {TRUE}, HostScripts)

(* instructions whose secondary code names no operation: 0x0000, 0x0123, 8018,
   E000, F00A, F0FF *)
UndefinedWords == {0, 291, 32792, 57344, 61450, 61695}

(* V0 = 1, then the word w, then a jump to itself *)
UndefinedRom(w) == Flatten(<<InsKK(6, 0, 1), W(w), InsAddr(1, ROM_ADDR + 4)>>)

UndefinedRoms == {UndefinedRom(w) : w \in UndefinedWords}

(* V0 = v, both timers set to V0, the delay timer read four times into V1..V4,
   then a jump to itself *)
TimerRom(v) ==
    Flatten(<<InsKK(6, 0, v), InsKK(15, 0, 21), InsKK(15, 0, 24), InsKK(15, 1, 7),
              InsKK(15, 2, 7), InsKK(15, 3, 7), InsKK(15, 4, 7), InsAddr(1, ROM_ADDR + 14)>>)

TimerRoms == {TimerRom(v) : v \in {0, 1, 3, 255}}

Init ==
    \/ InitTour
    \/ InitState(FlowRoms \cup UndefinedRoms \cup TimerRoms, {"run"}, {TRUE, FALSE}, {NoHost})

Spec == Init /\ [][Next]_vars

----------------------------------------------------------------------------
(* Control flow: CALL, RET, the fetch *)

Completed == last.fetched /\ last.ok

(* C1: a completed CALL nnn fetched at p leaves PC = nnn, p + 2 in the stack slot
   SP pointed at, and SP one higher; a completed RET leaves PC at the return
   address of the latest CALL not yet returned from, and SP at its value before
   that CALL (last in, first out, to any depth the stack holds). *)
CallRetRoundTrip ==
    /\ (Completed /\ IsCall(last.instruction)) =>
          /\ chip8.reg.reg_pc = Addr12(last.instruction)
          /\ chip8.reg.reg_sp = pre.reg.reg_sp + 1
          /\ chip8.reg.stack[pre.reg.reg_sp] = last.pc + 2
          /\ \A s \in 0..(STACK_LEN - 1) :
                s # pre.reg.reg_sp => chip8.reg.stack[s] = pre.reg.stack[s]
    /\ (Completed /\ IsRet(last.instruction)) =>
          /\ last.popped # NoCall
          /\ chip8.reg.reg_pc = last.popped.ret
          /\ chip8.reg.reg_sp = last.popped.sp

(* sixteen calls were nested and all of them have returned, to 0x202 *)
CallRetWitness ==
    /\ Completed /\ IsRet(last.instruction)
    /\ rom = NestRom(STACK_LEN)
    /\ chip8.reg.reg_sp = 0
    /\ chip8.reg.reg_pc = ROM_ADDR + 2
    /\ calls = <<>>

(* how the condition of a skip opcode reads on the state before the cycle *)
SkipTaken(c, instruction) ==
    LET vx == c.reg.reg_gp[NibX(instruction)]
        vy == c.reg.reg_gp[NibY(instruction)]
        kk == LowByte(instruction)
    IN  CASE OpType(instruction) = 3 -> vx = kk
          [] OpType(instruction) = 4 -> vx # kk
          [] OpType(instruction) = 5 -> vx = vy
          [] OpType(instruction) = 9 -> vx # vy
          [] OpType(instruction) = 14 /\ kk = 158 -> vx <= 15 /\ c.keys[vx % 16]
          [] OpType(instruction) = 14 /\ kk = 161 -> vx <= 15 /\ ~c.keys[vx % 16]
          [] OTHER -> FALSE

ChangesFlow(c, instruction) ==
    \/ OpType(instruction) \in {1, 2, 11}
    \/ IsRet(instruction)
    \/ SkipTaken(c, instruction)

(* C2: the instruction of a cycle is memory[PC] * 256 + memory[PC + 1]; PC is
   PC + 2 when the opcode begins (so it is where an opcode that panics leaves
   it), and after a completed cycle that is no jump, call, return or taken
   skip; JP and CALL leave PC = nnn. *)
FetchAdvancesPc ==
    last.fetched =>
        /\ last.instruction = MemAt(pre.mem, last.pc) * 256 + MemAt(pre.mem, last.pc + 1)
        /\ last.pc = pre.reg.reg_pc
        /\ ~last.ok => chip8.reg.reg_pc = last.pc + 2
        /\ (last.ok /\ ~ChangesFlow(pre, last.instruction)) =>
               chip8.reg.reg_pc = last.pc + 2
        /\ (last.ok /\ OpType(last.instruction) \in {1, 2}) =>
               chip8.reg.reg_pc = Addr12(last.instruction)

(* a completed cycle whose two instruction bytes differ and are no jump *)
FetchWitness ==
    /\ Completed
    /\ ~ChangesFlow(pre, last.instruction)
    /\ MemAt(pre.mem, last.pc) # MemAt(pre.mem, last.pc + 1)
    /\ MemAt(pre.mem, last.pc) # 0
    /\ chip8.reg.reg_pc = last.pc + 2
    /\ last.pc > ROM_ADDR

(* C3: RET with SP = 0 is fatal: the process panics and runs no further, SP stays
   0, and nothing of the machine but the fetch's PC + 2 has changed. *)
RetUnderflowIsFatal ==
    (last.fetched /\ IsRet(last.instruction) /\ pre.reg.reg_sp = 0) =>
        /\ panicked
        /\ at = "panic"
        /\ ~ENABLED Next
        /\ chip8.reg.reg_sp = 0
        /\ chip8 = [pre EXCEPT !.reg.reg_pc = last.pc + 2]

(* RET with SP = 0 after a CALL and its RET, so that stack[0] holds an address *)
RetUnderflowWitness ==
    /\ last.fetched /\ IsRet(last.instruction) /\ pre.reg.reg_sp = 0
    /\ pre.reg.stack[0] # 0
    /\ panicked

(* C4 as stated: in every state that is no error, SP is in [0, 16) *)
SpBelowStackLen == ~panicked => chip8.reg.reg_sp \in 0..(STACK_LEN - 1)

(* C4 amended: in every state that is no error, SP is in [0, 16] (16: the stack
   is full); a CALL with SP = 16 panics and leaves SP and the stack as they were. *)
SpWithinStack ==
    /\ ~panicked => chip8.reg.reg_sp \in 0..STACK_LEN
    /\ (last.fetched /\ IsCall(last.instruction) /\ pre.reg.reg_sp >= STACK_LEN) =>
          /\ panicked
          /\ ~ENABLED Next
          /\ chip8 = [pre EXCEPT !.reg.reg_pc = last.pc + 2]

(* the seventeenth nested CALL *)
SpWithinStackWitness ==
    /\ last.fetched /\ IsCall(last.instruction)
    /\ pre.reg.reg_sp = STACK_LEN
    /\ Len(calls) = STACK_LEN
    /\ panicked

----------------------------------------------------------------------------
(* Drawing: Dxyn *)

DrawXs == {0, 8, 56, 57, 60, 63, 64, 69, 70, 255}
DrawYs == {0, 17, 31, 32, 63, 64, 255}
DrawSprites == {<<>>, <<0>>, <<255>>, <<3>>, <<5>>, <<129, 15>>}

(* V0 = vx, V1 = vy, I = the sprite; DRW V0, V1, n; then, by `again`, the same
   DRW once more ("same"), ADD V0, 1 and the DRW ("shift"), or nothing ("none");
   "stale" is "none" with VF = 1 set first *)
DrawRom(vx, vy, sprite, again) ==
    LET drw == Ins(13, 0, 1, Len(sprite))
        first == IF again = "stale" THEN <<InsKK(6, 15, 1)>> ELSE <<>>
        more == CASE again = "same" -> <<drw>>
                  [] again = "shift" -> <<InsKK(7, 0, 1), drw>>
                  [] OTHER -> <<>>
        count == 5 + Len(first) + Len(more)
        code == first
                \o <<InsKK(6, 0, vx), InsKK(6, 1, vy), InsAddr(10, ROM_ADDR + 2 * count), drw>>
                \o more \o <<InsAddr(1, ROM_ADDR + 2 * (count - 1))>>
    IN  Flatten(code) \o sprite

DrawRoms ==
    {DrawRom(vx, vy, sprite, "same") :
        vx \in DrawXs, vy \in DrawYs, sprite \in {<<255>>, <<129, 15>>}}
    \cup {DrawRom(vx, vy, sprite, again) :
        vx \in {0, 60}, vy \in {0, 31}, sprite \in DrawSprites,
        again \in {"same", "shift", "none", "stale"}}

InitDraw == InitTour \/ InitState(DrawRoms, {"run"}, {TRUE, FALSE}, {NoHost})

SpecDraw == InitDraw /\ [][Next]_vars

IsDrw(instruction) == OpType(instruction) = 13

(* what a Dxyn is to do on machine state c: bit b of sprite row r, b = 0 the most
   significant, goes to column (Vx + b) mod 64 of row (Vy + r) mod 32 *)
DrwVx(c, instruction) == c.reg.reg_gp[NibX(instruction)]
DrwVy(c, instruction) == c.reg.reg_gp[NibY(instruction)]
DrwBitSet(c, r, b) == BitOf(MemAt(c.mem, c.reg.reg_i + r), 7 - b) = 1

DrwCells(c, instruction) ==
    {<<(DrwVx(c, instruction) + b) % 64, (DrwVy(c, instruction) + r) % 32>> :
        r \in 0..(NibN(instruction) - 1), b \in 0..7}

DrwInk(c, instruction) ==
    {<<(DrwVx(c, instruction) + rb[2]) % 64, (DrwVy(c, instruction) + rb[1]) % 32>> :
        rb \in {q \in (0..(NibN(instruction) - 1)) \X (0..7) : DrwBitSet(c, q[1], q[2])}}

DrwComposite(c, instruction) ==
    (c.display \ DrwInk(c, instruction)) \cup (DrwInk(c, instruction) \ c.display)

(* C5: after a Dxyn every cell the sprite targets is old XOR bit, and every other
   cell is as it was. *)
DrwXorComposite ==
    (Completed /\ IsDrw(last.instruction)) =>
        chip8.display = DrwComposite(pre, last.instruction)

(* The bit steps of a Dxyn in the order the loops take them: step k is bit
   k % 8 (0 = least significant) of sprite row k \div 8, on the cell the code
   indexes for it. *)
StepBitSet(c, instruction, k) ==
    BitOf(MemAt(c.mem, c.reg.reg_i + (k \div 8)), k % 8) = 1

StepCell(c, instruction, k) ==
    <<SpriteColumn(DrwVx(c, instruction), k % 8),
      (DrwVy(c, instruction) + (k \div 8)) % DISPLAY_H>>

(* the cell of step k is set when step k begins: it was set before the draw and
   an even number of earlier set bits hit it, or it was clear and an odd number did *)
SetWhenReached(c, instruction, k) ==
    LET hits == {j \in 0..(k - 1) :
                    /\ StepBitSet(c, instruction, j)
                    /\ StepCell(c, instruction, j) = StepCell(c, instruction, k)}
    IN  (StepCell(c, instruction, k) \in c.display) # (Cardinality(hits) % 2 = 1)

SomeCellErased(c, instruction) ==
    \E k \in 0..(8 * NibN(instruction) - 1) :
        StepBitSet(c, instruction, k) /\ SetWhenReached(c, instruction, k)

(* C6: after a Dxyn, VF = 1 if some cell went from set to unset in the course of
   the draw, and VF = 0 otherwise, whatever VF held before. *)
DrwCollisionFlag ==
    (Completed /\ IsDrw(last.instruction)) =>
        chip8.reg.reg_gp[15] = (IF SomeCellErased(pre, last.instruction) THEN 1 ELSE 0)

(* a draw over pixels an earlier draw had set, one of which it erased, and one
   of which a clear sprite bit passed over *)
DrwCollisionWitness ==
    /\ Completed /\ IsDrw(last.instruction)
    /\ chip8.reg.reg_gp[15] = 1
    /\ pre.display \ chip8.display # {}
    /\ pre.display \cap chip8.display # {}

(* a draw without collision that found VF = 1 *)
DrwStaleFlagWitness ==
    /\ Completed /\ IsDrw(last.instruction)
    /\ pre.reg.reg_gp[15] = 1
    /\ chip8.reg.reg_gp[15] = 0
    /\ chip8.display # {}

(* C7: for every Vx a Dxyn completes, with bit b in column (Vx + b) mod 64
   (the rows here do not wrap). *)
DrwWrapsColumns ==
    (last.fetched /\ IsDrw(last.instruction)
        /\ SpriteInMem(pre.reg.reg_i, NibN(last.instruction))
        /\ DrwVy(pre, last.instruction) + NibN(last.instruction) <= DISPLAY_H) =>
        /\ last.ok
        /\ chip8.display = DrwComposite(pre, last.instruction)

(* C8: for every Vy a Dxyn completes, with sprite row r in row (Vy + r) mod 32
   (the columns here do not wrap). *)
DrwWrapsRows ==
    (last.fetched /\ IsDrw(last.instruction)
        /\ SpriteInMem(pre.reg.reg_i, NibN(last.instruction))
        /\ DrwVx(pre, last.instruction) + 8 <= DISPLAY_W) =>
        /\ last.ok
        /\ chip8.display = DrwComposite(pre, last.instruction)

(* the last two cycles were the same Dxyn, of the same sprite, at the same place *)
DrewTwice ==
    /\ Completed /\ IsDrw(last.instruction)
    /\ last2.fetched /\ last2.ok /\ last2.instruction = last.instruction
    /\ DrwVx(pre2, last.instruction) = DrwVx(pre, last.instruction)
    /\ DrwVy(pre2, last.instruction) = DrwVy(pre, last.instruction)
    /\ pre2.reg.reg_i = pre.reg.reg_i
    /\ \A r \in 0..(NibN(last.instruction) - 1) :
          MemAt(pre2.mem, pre2.reg.reg_i + r) = MemAt(pre.mem, pre.reg.reg_i + r)

(* C9: the same sprite drawn twice at the same place leaves the framebuffer as
   it was; on cells that were clear, a sprite with a set bit gives VF = 0 the
   first time and VF = 1 the second. *)
DrwTwiceRestores ==
    DrewTwice =>
        /\ chip8.display = pre2.display
        /\ (DrwCells(pre2, last.instruction) \cap pre2.display = {}
              /\ DrwInk(pre2, last.instruction) # {}) =>
               /\ pre.reg.reg_gp[15] = 0
               /\ chip8.reg.reg_gp[15] = 1

----------------------------------------------------------------------------
(* Arithmetic and logic: 8xyN *)

AluVals == {0, 1, 2, 5, 10, 128, 255}
AluOps == {0, 1, 2, 3, 4, 5, 6, 7, 14}
AluRegs == {<<0, 1>>, <<15, 1>>, <<2, 15>>}

(* Vx = a, Vy = b, then 8xy<op> *)
AluRom(op, xy, a, b) ==
    Flatten(<<InsKK(6, xy[1], a), InsKK(6, xy[2], b), Ins(8, xy[1], xy[2], op),
              InsAddr(1, ROM_ADDR + 6)>>)

AluRoms == {AluRom(op, xy, a, b) : op \in AluOps, xy \in AluRegs, a \in AluVals, b \in AluVals}

Xy3Roms == {AluRom(3, xy, a, b) : xy \in AluRegs, a \in AluVals, b \in AluVals}

ImmVals == {0, 1, 2, 255}

(* VF = f, Vx = a, then ADD Vx, kk *)
AddImmRom(x, f, a, kk) ==
    Flatten(<<InsKK(6, 15, f), InsKK(6, x, a), InsKK(7, x, kk), InsAddr(1, ROM_ADDR + 6)>>)

AddImmRoms ==
    {AddImmRom(x, f, a, kk) : x \in {0, 7, 15}, f \in {0, 1}, a \in ImmVals, kk \in ImmVals}

LdVals == {0, 7, 171, 255}

(* V1 = 7, both timers = 7, I = 0x123, a CALL to the next instruction, then
   LD Vx, kk *)
LdRom(x, kk) ==
    Flatten(<<InsKK(6, 1, 7), InsKK(15, 1, 21), InsKK(15, 1, 24), InsAddr(10, 291),
              InsAddr(2, ROM_ADDR + 10), InsKK(6, x, kk), InsAddr(1, ROM_ADDR + 12)>>)

LdRoms == {LdRom(x, kk) : x \in 0..15, kk \in LdVals}

SkipVals == {0, 1, 255}
SkipOps == {3, 4, 5, 9}

(* the font sprite "0" drawn at (0,0); V0 = a, V1 = b; then SE V0, b / SNE V0, b /
   SE V0, V1 / SNE V0, V1; each of the two instructions that can follow jumps to
   itself *)
SkipRom(op, a, b) ==
    Flatten(<<InsAddr(10, 0), Ins(13, 2, 2, 5), InsKK(6, 0, a), InsKK(6, 1, b),
              IF op \in {3, 4} THEN InsKK(op, 0, b) ELSE Ins(op, 0, 1, 0),
              InsAddr(1, ROM_ADDR + 10), InsAddr(1, ROM_ADDR + 12)>>)

SkipRoms == {SkipRom(op, a, b) : op \in SkipOps, a \in SkipVals, b \in SkipVals}

(* VF = f, V0 = 3, V1 = 200, VE = 9, I = i, then the word w, then a jump to itself *)
FlagKeepRom(f, i, w) ==
    Flatten(<<InsKK(6, 15, f), InsKK(6, 0, 3), InsKK(6, 1, 200), InsKK(6, 14, 9),
              InsAddr(10, i), W(w), InsAddr(1, ROM_ADDR + 12)>>)

(* 600A, 6E0A, 71FF, 7EFF, 8010, 8E11, 8011, 8012, C0FF, CEFF, F007, FE07, F165,
   FE65, A123, F015, F018, F11E, F029, F133, F155, FF55 *)
FlagKeepWords ==
    {24586, 28170, 29183, 32511, 32784, 36369, 32785, 32786, 49407, 52991, 61447,
     65031, 61797, 65125, 41251, 61461, 61464, 61726, 61481, 61747, 61781, 65365}

FlagKeepRoms ==
    {FlagKeepRom(f, 768, w) : f \in {1, 200}, w \in FlagKeepWords}
    \cup {FlagKeepRom(f, 4000, 61726) : f \in {1, 200}}

AddICount == 243

(* I = i, V0 = v, V1 = AddICount, then Fx1E on V0 as many times as V1 counts,
   then a jump to itself *)
AddIRom(i, v) ==
    Flatten(<<InsAddr(10, i), InsKK(6, 0, v), InsKK(6, 1, AddICount), InsKK(15, 0, 30),
              InsKK(7, 1, 255), InsKK(3, 1, 0), InsAddr(1, ROM_ADDR + 6),
              InsAddr(1, ROM_ADDR + 14)>>)

AddIRoms == {AddIRom(i, v) : i \in {0, 4080, 4095}, v \in {0, 1, 255}}

InitAlu ==
    \/ InitTour
    \/ InitState(AluRoms \cup AddImmRoms \cup LdRoms \cup SkipRoms \cup FlagKeepRoms,
                 {"run"}, {TRUE}, {NoHost})
    \/ InitState(AddIRoms, {"run"}, {TRUE, FALSE}, {NoHost})
    \/ InitState(Xy3Roms, {"run"}, {FALSE}, {NoHost})

SpecAlu == InitAlu /\ [][Next]_vars

BitXor8(a, b) ==
    LET bit(i) == (BitOf(a, i) + BitOf(b, i)) % 2
    IN  bit(0) + 2*bit(1) + 4*bit(2) + 8*bit(3) + 16*bit(4) + 32*bit(5) + 64*bit(6) + 128*bit(7)

IsAlu(instruction, op) == OpType(instruction) = 8 /\ NibN(instruction) = op

(* C10: 8xy3 completes for all register values, with Vx = old Vx XOR old Vy, and
   writes no flag to VF. *)
Xy3IsXor ==
    (last.fetched /\ IsAlu(last.instruction, 3)) =>
        /\ last.ok
        /\ chip8.reg.reg_gp[NibX(last.instruction)] =
              BitXor8(pre.reg.reg_gp[NibX(last.instruction)],
                      pre.reg.reg_gp[NibY(last.instruction)])
        /\ NibX(last.instruction) # 15 => chip8.reg.reg_gp[15] = pre.reg.reg_gp[15]

AluX == NibX(last.instruction)
AluY == NibY(last.instruction)
AluVx == pre.reg.reg_gp[AluX]
AluVy == pre.reg.reg_gp[AluY]
FlagIs(cond) == chip8.reg.reg_gp[15] = (IF cond THEN 1 ELSE 0)

(* C11: 8xy4 with x # F completes for all values of Vx and Vy, leaving
   Vx = (Vx + Vy) mod 256 and VF = 1 if the sum exceeds 255, VF = 0 otherwise,
   whatever VF held before. *)
AddSetsCarry ==
    (last.fetched /\ IsAlu(last.instruction, 4) /\ AluX # 15) =>
        /\ last.ok
        /\ chip8.reg.reg_gp[AluX] = (AluVx + AluVy) % 256
        /\ FlagIs(AluVx + AluVy > 255)

(* an ADD without carry that found VF = 1 and cleared it *)
AddSetsCarryWitness ==
    /\ Completed /\ IsAlu(last.instruction, 4) /\ AluX # 15
    /\ pre.reg.reg_gp[15] = 1
    /\ AluVx + AluVy <= 255
    /\ chip8.reg.reg_gp[15] = 0

(* 0xFF + 0x02 = 0x01 with VF = 1 *)
AddCarryExample ==
    /\ Completed /\ IsAlu(last.instruction, 4) /\ AluX # 15
    /\ AluVx = 255 /\ AluVy = 2
    /\ chip8.reg.reg_gp[AluX] = 1 /\ chip8.reg.reg_gp[15] = 1

(* C12: with x # F, 8xy5 completes for all values with VF = 1 if Vx > Vy, else 0,
   and Vx = (Vx - Vy) mod 256; 8xy7 completes with VF = 1 if Vy > Vx, else 0, and
   Vx = (Vy - Vx) mod 256; a negative difference wraps and equal operands give
   VF = 0. *)
SubSetsNotBorrow ==
    /\ (last.fetched /\ IsAlu(last.instruction, 5) /\ AluX # 15) =>
          /\ last.ok
          /\ chip8.reg.reg_gp[AluX] = (AluVx - AluVy) % 256
          /\ FlagIs(AluVx > AluVy)
    /\ (last.fetched /\ IsAlu(last.instruction, 7) /\ AluX # 15) =>
          /\ last.ok
          /\ chip8.reg.reg_gp[AluX] = (AluVy - AluVx) % 256
          /\ FlagIs(AluVy > AluVx)

(* 0x05 - 0x0A = 0xFB with VF = 0 *)
SubSetsNotBorrowWitness ==
    /\ Completed /\ IsAlu(last.instruction, 5) /\ AluX # 15
    /\ AluVx = 5 /\ AluVy = 10
    /\ chip8.reg.reg_gp[AluX] = 251 /\ chip8.reg.reg_gp[15] = 0

(* SUBN with a negative difference, and a SUB of equal operands that found VF = 1 *)
SubnWrapsExample ==
    /\ Completed /\ IsAlu(last.instruction, 7) /\ AluX # 15
    /\ AluVx = 10 /\ AluVy = 5
    /\ chip8.reg.reg_gp[AluX] = 251 /\ chip8.reg.reg_gp[15] = 0

SubEqualExample ==
    /\ Completed /\ IsAlu(last.instruction, 5) /\ AluX # 15
    /\ AluVx = AluVy /\ pre.reg.reg_gp[15] = 1
    /\ chip8.reg.reg_gp[AluX] = 0 /\ chip8.reg.reg_gp[15] = 0

IsAddImm(instruction) == OpType(instruction) = 7

(* C13: 7xkk completes for all Vx and kk with Vx = (Vx + kk) mod 256, and for
   x # F leaves VF as it was, also when the addition overflows. *)
AddImmWrapsNoFlag ==
    (last.fetched /\ IsAddImm(last.instruction)) =>
        /\ last.ok
        /\ chip8.reg.reg_gp[AluX] = (AluVx + LowByte(last.instruction)) % 256
        /\ AluX # 15 => chip8.reg.reg_gp[15] = pre.reg.reg_gp[15]

(* 0xFF + 0x02 = 0x01 with VF still 0 *)
AddImmWrapsNoFlagWitness ==
    /\ Completed /\ IsAddImm(last.instruction) /\ AluX # 15
    /\ AluVx = 255 /\ LowByte(last.instruction) = 2
    /\ chip8.reg.reg_gp[AluX] = 1
    /\ pre.reg.reg_gp[15] = 0 /\ chip8.reg.reg_gp[15] = 0

(* an addition without overflow that leaves VF = 1 standing *)
AddImmKeepsFlagExample ==
    /\ Completed /\ IsAddImm(last.instruction) /\ AluX # 15
    /\ AluVx + LowByte(last.instruction) <= 255
    /\ pre.reg.reg_gp[15] = 1 /\ chip8.reg.reg_gp[15] = 1

IsLdImm(instruction) == OpType(instruction) = 6

(* the loop stands between cpu_cycle() and the timer update that follows it *)
CycleJustRan == at = "input"

(* C14: 6xkk completes for every x in 0..15 and every kk; afterwards reading
   register x returns kk, and every other general register, I, the timers, SP
   and the stack are as before. *)
LdImmWritesOnlyVx ==
    (last.fetched /\ IsLdImm(last.instruction)) =>
        /\ last.ok
        /\ read_register(chip8, AluX) = LowByte(last.instruction)
        /\ \A r \in 0..15 : r # AluX => chip8.reg.reg_gp[r] = pre.reg.reg_gp[r]
        /\ chip8.reg.reg_i = pre.reg.reg_i
        /\ CycleJustRan =>
              /\ chip8.reg.reg_delay = pre.reg.reg_delay
              /\ chip8.reg.reg_sound = pre.reg.reg_sound
        /\ chip8.reg.reg_sp = pre.reg.reg_sp
        /\ chip8.reg.stack = pre.reg.stack

(* LD VF, 0xAB inside a subroutine, with I and a general register non-zero *)
LdImmWritesOnlyVxWitness ==
    /\ Completed /\ IsLdImm(last.instruction)
    /\ AluX = 15 /\ LowByte(last.instruction) = 171
    /\ chip8.reg.reg_gp[15] = 171 /\ pre.reg.reg_gp[15] # 171
    /\ chip8.reg.reg_gp[1] = 7
    /\ chip8.reg.reg_i = 291
    /\ CycleJustRan /\ chip8.reg.reg_delay > 0 /\ chip8.reg.reg_sound > 0
    /\ chip8.reg.reg_sp = 1 /\ chip8.reg.stack[0] = ROM_ADDR + 10

(* C15: with x # F, 8xy6 completes with VF = bit 0 of the old Vx and
   Vx = old Vx divided by 2, rounded down; 8xyE completes with VF = bit 7 of the
   old Vx and Vx = (old Vx * 2) mod 256; VF is written whatever it held. *)
ShiftsSetFlag ==
    /\ (last.fetched /\ IsAlu(last.instruction, 6) /\ AluX # 15) =>
          /\ last.ok
          /\ chip8.reg.reg_gp[AluX] = AluVx \div 2
          /\ FlagIs(AluVx % 2 = 1)
    /\ (last.fetched /\ IsAlu(last.instruction, 14) /\ AluX # 15) =>
          /\ last.ok
          /\ chip8.reg.reg_gp[AluX] = (AluVx * 2) % 256
          /\ FlagIs(AluVx >= 128)

(* SHL of 0x80: the high bit goes to VF, Vx becomes 0 *)
ShiftsSetFlagWitness ==
    /\ Completed /\ IsAlu(last.instruction, 14) /\ AluX # 15
    /\ AluVx = 128
    /\ chip8.reg.reg_gp[AluX] = 0 /\ chip8.reg.reg_gp[15] = 1

(* SHR of an even value that found VF = 1, and SHR of 0xFF *)
ShrClearsFlagExample ==
    /\ Completed /\ IsAlu(last.instruction, 6) /\ AluX # 15
    /\ AluVx = 10 /\ pre.reg.reg_gp[15] = 1
    /\ chip8.reg.reg_gp[AluX] = 5 /\ chip8.reg.reg_gp[15] = 0

ShrOddExample ==
    /\ Completed /\ IsAlu(last.instruction, 6) /\ AluX # 15
    /\ AluVx = 255
    /\ chip8.reg.reg_gp[AluX] = 127 /\ chip8.reg.reg_gp[15] = 1

IsSkip(instruction) == OpType(instruction) \in {3, 4, 5, 9}

(* the condition of a conditional skip, on the registers before the cycle *)
SkipCondition ==
    CASE OpType(last.instruction) = 3 -> AluVx = LowByte(last.instruction)
      [] OpType(last.instruction) = 4 -> AluVx # LowByte(last.instruction)
      [] OpType(last.instruction) = 5 -> AluVx = AluVy
      [] OTHER -> AluVx # AluVy

(* C16: a 3xkk, 4xkk, 5xy0 or 9xy0 fetched at p completes with PC = p + 4 if its
   condition holds and PC = p + 2 otherwise; the general registers, I, SP, the
   stack, the timers, memory and the framebuffer are as before. *)
SkipMovesOnlyPc ==
    (last.fetched /\ IsSkip(last.instruction)) =>
        /\ last.ok
        /\ chip8.reg.reg_pc = last.pc + (IF SkipCondition THEN 4 ELSE 2)
        /\ chip8.reg.reg_gp = pre.reg.reg_gp
        /\ chip8.reg.reg_i = pre.reg.reg_i
        /\ chip8.reg.reg_sp = pre.reg.reg_sp
        /\ chip8.reg.stack = pre.reg.stack
        /\ chip8.mem = pre.mem
        /\ chip8.display = pre.display
        /\ CycleJustRan => chip8 = [pre EXCEPT !.reg.reg_pc = chip8.reg.reg_pc]

(* SNE V0, V1 taken, on a machine with pixels set *)
SkipMovesOnlyPcWitness ==
    /\ Completed /\ OpType(last.instruction) = 9 /\ CycleJustRan
    /\ AluVx # AluVy
    /\ chip8.reg.reg_pc = last.pc + 4
    /\ chip8.display # {}

(* the three other skips, taken and not *)
SeImmTakenExample ==
    Completed /\ OpType(last.instruction) = 3 /\ chip8.reg.reg_pc = last.pc + 4

SneImmNotTakenExample ==
    Completed /\ OpType(last.instruction) = 4 /\ chip8.reg.reg_pc = last.pc + 2
        /\ AluVx = 255

SeRegNotTakenExample ==
    Completed /\ OpType(last.instruction) = 5 /\ chip8.reg.reg_pc = last.pc + 2
        /\ chip8.display # {}

----------------------------------------------------------------------------
(* Timers *)

(* the period of a 60 Hz timer in whole milliseconds *)
TimerPeriodMs == 1000 \div 60

(* Fx15 and Fx18 write a timer *)
WritesTimer(instruction) == OpType(instruction) = 15 /\ LowByte(instruction) \in {21, 24}

(* run() has just updated the timers in an iteration whose cycle, like that of
   the iteration before it, ran an instruction that writes no timer *)
TwoTimerUpdates ==
    /\ mode = "run" /\ at = "render"
    /\ last.fetched /\ last2.fetched
    /\ ~WritesTimer(last.instruction) /\ ~WritesTimer(last2.instruction)

(* C17: two consecutive loop iterations less than one timer period apart do not
   both decrement a timer: while less than a period has passed since the loop
   began, of the two latest timer updates at most one lowered the delay timer
   and at most one lowered the sound timer. *)
TimersRateGated ==
    (TwoTimerUpdates /\ now < TimerPeriodMs) =>
        /\ ~(pre2.reg.reg_delay > pre.reg.reg_delay
               /\ pre.reg.reg_delay > chip8.reg.reg_delay)
        /\ ~(pre2.reg.reg_sound > pre.reg.reg_sound
               /\ pre.reg.reg_sound > chip8.reg.reg_sound)

----------------------------------------------------------------------------
(* Fatal conditions *)

(* the secondary codes each family defines *)
DefinedSecondary(instruction) ==
    CASE OpType(instruction) = 0 -> LowByte(instruction) \in {224, 238}
      [] OpType(instruction) = 8 -> NibN(instruction) \in {0, 1, 2, 3, 4, 5, 6, 7, 14}
      [] OpType(instruction) = 14 -> LowByte(instruction) \in {158, 161}
      [] OpType(instruction) = 15 ->
            LowByte(instruction) \in {7, 21, 24, 30, 41, 51, 85, 101}
      [] OTHER -> TRUE

(* C18: in the families 0x0, 0x8, 0xE and 0xF an instruction whose secondary
   code names no operation is fatal: the cycle that fetched it does not
   complete. *)
IllegalOpcodeIsFatal ==
    (last.fetched /\ ~DefinedSecondary(last.instruction)) => ~last.ok

(* I = 0xFFD + add with V0 = add and V1 = 0x12, then one instruction that
   reads or writes memory at I, then a jump to itself *)
MemAdds == {0, 1, 2, 3, 4}
MemWords == {53536, 53537, 53538,     \* DRW V1, V1, 0 / 1 / 2
             61491, 61747,            \* LD B, V0 / V1
             61525, 61781, 62037,     \* LD [I], V0 / V1 / V2
             61541, 61797}            \* LD V0, [I] / LD V1, [I]

MemRom(add, w) ==
    Flatten(<<InsKK(6, 0, add), InsKK(6, 1, 18), InsAddr(10, 4093), InsKK(15, 0, 30),
              W(w), InsAddr(1, ROM_ADDR + 10)>>)

(* JP V0, 0xFFE with V0 = add: the next fetch is at 0xFFE + add *)
JumpOutRom(add) == Flatten(<<InsKK(6, 0, add), InsAddr(11, 4094)>>)

(* the instruction w stored at 0xFFE by the program itself, then run *)
LastWordRom(w) ==
    Flatten(<<InsKK(6, 0, w \div 256), InsKK(6, 1, w % 256), InsAddr(10, 4094),
              InsKK(15, 2, 85), InsAddr(1, 4094)>>)

MemRoms ==
    {MemRom(add, w) : add \in MemAdds, w \in MemWords}
    \cup {JumpOutRom(add) : add \in {0, 1, 2, 255}}
    \cup {LastWordRom(w) : w \in {20480, 24577, 16384}}   \* SE V0, V0; LD V0, 1; SNE V0, 0

(* the longest ROM that fits, and how many bytes beyond it the ROMs tried have *)
RomLimit == MEM_SIZE - ROM_ADDR
MaxExtra == 2

(* a jump to itself followed by 0xAA up to the length RomLimit + extra *)
LongRom(extra) ==
    [k \in 1..(RomLimit + extra) |-> IF k = 1 THEN 18 ELSE IF k = 2 THEN 0 ELSE 170]

LongRoms == {LongRom(extra) : extra \in 0..MaxExtra}

(* Vk = 16 + k for k in 0..4 and VF = 31, I = addr, then Fx55 or Fx65 *)
RegFileXs == {0, 1, 3, 15}
RegFileAddrs == {0, 75, 512, 768}

RegFileRom(low, x, addr) ==
    Flatten(<<InsKK(6, 0, 16), InsKK(6, 1, 17), InsKK(6, 2, 18), InsKK(6, 3, 19),
              InsKK(6, 4, 20), InsKK(6, 15, 31), InsAddr(10, addr), InsKK(15, x, low),
              InsAddr(1, ROM_ADDR + 16)>>)

RegFileRoms == {RegFileRom(low, x, addr) : low \in {85, 101}, x \in RegFileXs, addr \in RegFileAddrs}

(* V3 = v, I = 0x300 preset to 0xEE 0xEE 0xEE by an Fx55, then LD B, V3 *)
BcdRom(v) ==
    Flatten(<<InsKK(6, 0, 238), InsKK(6, 1, 238), InsKK(6, 2, 238), InsKK(6, 3, v),
              InsAddr(10, 768), InsKK(15, 3, 85), InsKK(15, 3, 51),
              InsAddr(1, ROM_ADDR + 14)>>)

BcdRoms == {BcdRom(v) : v \in Byte}

(* I = 0x123, V2 = v, then LD F, V2 *)
GlyphRom(v) ==
    Flatten(<<InsAddr(10, 291), InsKK(6, 2, v), InsKK(15, 2, 41), InsAddr(1, ROM_ADDR + 6)>>)

GlyphRoms == {GlyphRom(v) : v \in 0..17}

(* V0..V3 = 11, 22, 33, 44, I = addr, Fx55, V0 and V1 cleared, Fx65, then a
   jump to itself *)
RoundTripRom(x, addr) ==
    Flatten(<<InsKK(6, 0, 11), InsKK(6, 1, 22), InsKK(6, 2, 33), InsKK(6, 3, 44),
              InsAddr(10, addr), InsKK(15, x, 85), InsKK(6, 0, 0), InsKK(6, 1, 0),
              InsKK(15, x, 101), InsAddr(1, ROM_ADDR + 18)>>)

RoundTripRoms == {RoundTripRom(x, addr) : x \in {0, 1, 3}, addr \in {768, 4092}}

InitMem ==
    \/ InitTour
    \/ InitState(MemRoms \cup LongRoms \cup RegFileRoms \cup RoundTripRoms,
                 {"run"}, {TRUE, FALSE}, {NoHost})
    \/ InitState(BcdRoms \cup GlyphRoms, {"run"}, {TRUE}, {NoHost})

SpecMem == InitMem /\ [][Next]_vars

(* the highest address the instruction reads or writes on machine state c, -1
   if it accesses none: Dxyn reads I .. I+n-1, Fx33 writes I .. I+2, Fx55 writes
   I .. I+x-1, Fx65 reads I .. I+x *)
HighestAccess(c, instruction) ==
    LET low == LowByte(instruction)
        x == NibX(instruction)
    IN  CASE OpType(instruction) = 13 /\ NibN(instruction) > 0 ->
                c.reg.reg_i + NibN(instruction) - 1
          [] OpType(instruction) = 15 /\ low = 51 -> c.reg.reg_i + 2
          [] OpType(instruction) = 15 /\ low = 85 /\ x > 0 -> c.reg.reg_i + x - 1
          [] OpType(instruction) = 15 /\ low = 101 -> c.reg.reg_i + x
          [] OTHER -> -1

(* the addresses at which two memories differ *)
MemDiff(m1, m2) == {a \in (DOMAIN m1) \cup (DOMAIN m2) : MemAt(m1, a) # MemAt(m2, a)}

(* C19: a cycle whose fetch at PC, PC+1 or whose sprite read, Fx33 / Fx55 write
   or Fx65 read reaches an address >= 4096 is fatal and has no effect at a
   wrapped address: a failed fetch leaves the machine as it was; otherwise the
   display is as before, every byte that changed lies in [I, 4096), and the
   registers Fx65 would load from beyond memory are as before. *)
AddressRangeIsFatal ==
    /\ (last.pc + 1 >= MEM_SIZE) =>
          /\ ~last.fetched /\ ~last.ok /\ panicked
          /\ chip8 = pre
    /\ (last.fetched /\ HighestAccess(pre, last.instruction) >= MEM_SIZE) =>
          /\ ~last.ok /\ panicked
          /\ chip8.display = pre.display
          /\ \A a \in MemDiff(chip8.mem, pre.mem) : pre.reg.reg_i <= a /\ a < MEM_SIZE
          /\ \A r \in 0..15 :
                (pre.reg.reg_i + r >= MEM_SIZE) => chip8.reg.reg_gp[r] = pre.reg.reg_gp[r]

(* Fx33 with I = 0xFFE: two digits stored, the third write fatal *)
AddressRangeIsFatalWitness ==
    /\ last.fetched /\ ~last.ok /\ panicked
    /\ OpType(last.instruction) = 15 /\ LowByte(last.instruction) = 51
    /\ pre.reg.reg_i = 4094
    /\ MemDiff(chip8.mem, pre.mem) # {}

(* a fetch at 0xFFF after Bnnn, a fetch at 0x1002 after a skip at 0xFFE, a sprite
   read at 0x1000, an Fx65 read at 0x1000 after one at 0xFFF *)
FetchPastEndAfterJump ==
    /\ panicked /\ ~last.fetched /\ last.pc = 4095
    /\ OpType(last2.instruction) = 11

FetchPastEndAfterSkip ==
    /\ panicked /\ ~last.fetched /\ last.pc = 4098
    /\ last2.pc = 4094 /\ IsSkip(last2.instruction)

SpriteReadPastEnd ==
    /\ panicked /\ last.fetched /\ IsDrw(last.instruction)
    /\ pre.reg.reg_i + NibN(last.instruction) - 1 = MEM_SIZE

LoadPastEnd ==
    /\ panicked /\ last.fetched
    /\ OpType(last.instruction) = 15 /\ LowByte(last.instruction) = 101
    /\ pre.reg.reg_i = 4095 /\ NibX(last.instruction) = 1

(* accesses that end at 0xFFF complete *)
AccessAtLastByte ==
    /\ Completed /\ HighestAccess(pre, last.instruction) = MEM_SIZE - 1
    /\ MemDiff(chip8.mem, pre.mem) # {}

(* C20: loading a ROM longer than 4096 - 0x200 bytes is fatal at load time: no
   instruction cycle runs, and the load has written no byte outside
   [0x200, 4096). *)
RomTooLongIsFatal ==
    (Len(rom) > RomLimit /\ at # "store_program_data") =>
        /\ panicked /\ at = "panic"
        /\ last = NoCycle
        /\ chip8.reg = RegistersNew
        /\ \A a \in MemDiff(chip8.mem, EmptyMem) : ROM_ADDR <= a /\ a < MEM_SIZE

(* a ROM one byte too long has been refused, its bytes up to 0xFFF stored *)
RomTooLongIsFatalWitness ==
    /\ Len(rom) = RomLimit + 1
    /\ panicked /\ at = "panic"
    /\ MemAt(chip8.mem, MEM_SIZE - 1) = 170

(* a ROM of exactly 4096 - 0x200 bytes loads and runs *)
RomAtLimitRuns ==
    /\ Len(rom) = RomLimit
    /\ Completed /\ MemAt(chip8.mem, MEM_SIZE - 1) = 170

----------------------------------------------------------------------------
(* Startup *)

(* main has loaded the ROM and the font and no cycle has run yet *)
BeforeFirstCycle ==
    /\ at \in {"run", "top", "wait", "cycle"}
    /\ last = NoCycle

(* C21: for the 80-byte font and a ROM of at most 3584 bytes, before the first
   cycle memory[0..80) holds the font bytes, memory[0x200 .. 0x200+len) the ROM
   bytes in order, and every other byte is 0. *)
MemoryLayoutAtStart ==
    (BeforeFirstCycle /\ Len(FontBin) = 80 /\ Len(rom) <= RomLimit) =>
        \A a \in 0..(MEM_SIZE - 1) :
            MemAt(chip8.mem, a) =
                IF a < 80 THEN FontBin[a + 1]
                ELSE IF a >= 512 /\ a < 512 + Len(rom) THEN rom[a - 511]
                ELSE 0

(* the longest ROM loaded: its first and last byte and glyph "F" are in place *)
MemoryLayoutAtStartWitness ==
    /\ BeforeFirstCycle /\ at = "cycle"
    /\ Len(rom) = RomLimit
    /\ MemAt(chip8.mem, 512) = rom[1]
    /\ MemAt(chip8.mem, MEM_SIZE - 1) = rom[RomLimit] /\ rom[RomLimit] # 0
    /\ MemAt(chip8.mem, 75) = 240 /\ MemAt(chip8.mem, 79) = 128
    /\ MemAt(chip8.mem, 80) = 0 /\ MemAt(chip8.mem, 511) = 0

----------------------------------------------------------------------------
(* Fx55, Fx65, Fx33, Fx29 *)

IsFx(instruction, low) == OpType(instruction) = 15 /\ LowByte(instruction) = low

(* C22: a completed Fx55 leaves memory[I+k] = Vk for every k in 0..x, every
   other memory byte as it was, and every register as it was. *)
StoreRegsInclusive ==
    (Completed /\ IsFx(last.instruction, 85)) =>
        /\ \A k \in 0..AluX : MemAt(chip8.mem, pre.reg.reg_i + k) = pre.reg.reg_gp[k]
        /\ \A a \in MemDiff(chip8.mem, pre.mem) :
              pre.reg.reg_i <= a /\ a <= pre.reg.reg_i + AluX
        /\ chip8.reg.reg_gp = pre.reg.reg_gp
        /\ chip8.reg.reg_i = pre.reg.reg_i

(* C23: a completed Fx65 leaves Vk = memory[I+k] for every k in 0..x and
   leaves V(x+1) .. VF, I and memory as they were. *)
LoadRegsInclusive ==
    (Completed /\ IsFx(last.instruction, 101)) =>
        /\ \A k \in 0..15 :
              chip8.reg.reg_gp[k] = IF k <= AluX THEN MemAt(pre.mem, pre.reg.reg_i + k)
                                    ELSE pre.reg.reg_gp[k]
        /\ chip8.reg.reg_i = pre.reg.reg_i
        /\ chip8.mem = pre.mem

(* F365 from the program's own bytes: V0..V3 loaded, V4 and VF kept *)
LoadRegsInclusiveWitness ==
    /\ Completed /\ IsFx(last.instruction, 101)
    /\ AluX = 3 /\ pre.reg.reg_i = 512
    /\ chip8.reg.reg_gp[0] = 96 /\ chip8.reg.reg_gp[3] = 17
    /\ chip8.reg.reg_gp[4] = 20 /\ chip8.reg.reg_gp[15] = 31

(* FF65 loads all sixteen registers; F065 loads V0 alone *)
LoadAllRegsExample ==
    /\ Completed /\ IsFx(last.instruction, 101) /\ AluX = 15
    /\ pre.reg.reg_i = 512 /\ chip8.reg.reg_gp[14] = 255 /\ chip8.reg.reg_gp[15] = 101

LoadOneRegExample ==
    /\ Completed /\ IsFx(last.instruction, 101) /\ AluX = 0
    /\ pre.reg.reg_i = 75 /\ chip8.reg.reg_gp[0] = 240 /\ chip8.reg.reg_gp[1] = 17

(* C24: Fx33 completes for every Vx in 0..255 when I + 2 is in memory, with a
   digit in 0..9 at each of memory[I], memory[I+1], memory[I+2] and
   100 * memory[I] + 10 * memory[I+1] + memory[I+2] = Vx; I and the general
   registers are as before. *)
BcdDigits ==
    (last.fetched /\ IsFx(last.instruction, 51) /\ pre.reg.reg_i + 2 < MEM_SIZE) =>
        LET h == MemAt(chip8.mem, pre.reg.reg_i)
            t == MemAt(chip8.mem, pre.reg.reg_i + 1)
            o == MemAt(chip8.mem, pre.reg.reg_i + 2)
        IN  /\ last.ok
            /\ h \in 0..9 /\ t \in 0..9 /\ o \in 0..9
            /\ 100 * h + 10 * t + o = AluVx
            /\ chip8.reg.reg_i = pre.reg.reg_i
            /\ chip8.reg.reg_gp = pre.reg.reg_gp

(* 157 stored as 1, 5, 7 over bytes that held 0xEE *)
BcdDigitsWitness ==
    /\ Completed /\ IsFx(last.instruction, 51)
    /\ AluVx = 157
    /\ MemAt(pre.mem, pre.reg.reg_i) = 238
    /\ MemAt(chip8.mem, pre.reg.reg_i) = 1
    /\ MemAt(chip8.mem, pre.reg.reg_i + 1) = 5
    /\ MemAt(chip8.mem, pre.reg.reg_i + 2) = 7

(* 255 and 0, the ends of the range *)
BcdMaxExample ==
    /\ Completed /\ IsFx(last.instruction, 51) /\ AluVx = 255
    /\ MemAt(chip8.mem, pre.reg.reg_i) = 2 /\ MemAt(chip8.mem, pre.reg.reg_i + 2) = 5

BcdZeroExample ==
    /\ Completed /\ IsFx(last.instruction, 51) /\ AluVx = 0
    /\ MemAt(pre.mem, pre.reg.reg_i + 1) = 238
    /\ MemDiff(chip8.mem, EmptyMem) \cap {768, 769, 770} = {}

(* C25: Fx29 completes for every digit Vx in 0..15 with I = 5 * Vx, the first
   of the five bytes of that digit's glyph inside the font region [0, 80). *)
GlyphAddress ==
    (last.fetched /\ IsFx(last.instruction, 41) /\ AluVx <= 15) =>
        /\ last.ok
        /\ chip8.reg.reg_i = 5 * AluVx
        /\ chip8.reg.reg_i + 4 < Len(FontBin)
        /\ \A k \in 0..4 : MemAt(chip8.mem, chip8.reg.reg_i + k) = FontBin[5 * AluVx + k + 1]

(* digit 0xA resolves to 0x32 *)
GlyphAddressWitness ==
    /\ Completed /\ IsFx(last.instruction, 41)
    /\ AluVx = 10 /\ pre.reg.reg_i = 291 /\ chip8.reg.reg_i = 50

(* digit 0xF resolves to 0x4B, digit 0 to 0 *)
GlyphLastExample ==
    /\ Completed /\ IsFx(last.instruction, 41)
    /\ AluVx = 15 /\ chip8.reg.reg_i = 75

GlyphFirstExample ==
    /\ Completed /\ IsFx(last.instruction, 41)
    /\ AluVx = 0 /\ pre.reg.reg_i = 291 /\ chip8.reg.reg_i = 0

----------------------------------------------------------------------------
(* The loop: presentation, quit, step order, single-step *)

(* run() is about to call render() *)
AtPresent == mode = "run" /\ at = "render"

(* C26: in the run loop the presenter is invoked in an iteration only if the
   display's dirty flag is set at that point, and the flag is false right after
   every presentation. *)
PresentOnlyWhenDirty ==
    /\ AtPresent => chip8.display_updated
    /\ (mode = "run" /\ at = "top" /\ last.fetched) => ~chip8.display_updated

(* C27: right after a completed Dxyn the dirty flag is set if some framebuffer
   cell changed value, and is as it was before the instruction if none did. *)
DrwDirtyIffChanged ==
    (Completed /\ IsDrw(last.instruction) /\ CycleJustRan) =>
        chip8.display_updated =
            (IF chip8.display # pre.display THEN TRUE ELSE pre.display_updated)

(* the events a poll takes from the pump in this step, <<>> if the step is no poll *)
PolledEvents ==
    IF at \in {"input", "wait"} /\ Len(queue') < Len(queue)
    THEN SubSeq(queue, 1, Len(queue) - Len(queue'))
    ELSE <<>>

QuitSignal(event) ==
    event.kind = "Quit" \/ (event.kind = "KeyDown" /\ event.keycode = "Escape")

(* C28: a poll that meets a quit signal leaves the loop without touching
   registers, memory or framebuffer; the loop is left by a poll only, in run()
   after a cycle that has completed; once the loop is left, the machine, the
   record of the last cycle and the window never change again. *)
QuitStopsTheLoop ==
    [][/\ (\E i \in 1..Len(PolledEvents) : QuitSignal(PolledEvents[i])) =>
             /\ at' = "exit"
             /\ chip8'.reg = chip8.reg /\ chip8'.mem = chip8.mem
             /\ chip8'.display = chip8.display
             /\ last' = last
       /\ (at # "exit" /\ at' = "exit") =>
             /\ at \in {"input", "wait"}
             /\ at = "input" => Completed
       /\ at = "exit" =>
             /\ at' = "exit"
             /\ chip8' = chip8 /\ last' = last /\ window' = window]_vars

(* run() left on a window close right after the cycle that set the delay timer:
   the timer still holds what the cycle wrote *)
QuitStopsTheLoopWitness ==
    /\ at = "exit" /\ mode = "run"
    /\ Completed /\ IsFx(last.instruction, 21)
    /\ chip8.reg.reg_delay = chip8.reg.reg_gp[NibX(last.instruction)]
    /\ chip8.reg.reg_delay > 0

(* the loop left on Escape, and the debug loop left before any cycle *)
QuitOnEscapeExample ==
    /\ at = "exit" /\ host.events = <<>> /\ queue = <<>>
    /\ rom = HostRom /\ host.ticks = 0 /\ Completed

QuitWhileWaitingExample ==
    at = "exit" /\ mode = "debug" /\ last = NoCycle

(* C29: every iteration of run() performs its steps in the order poll input,
   one cycle, timer update, presentation: from the top of the loop the next step
   is the poll, the cycle follows the poll, the timer update follows the cycle,
   the presentation follows the timer update. *)
LoopStepOrder ==
    [][(mode = "run" /\ at' # at) =>
          CASE at = "top" -> at' = "input"
            [] at = "input" -> at' \in {"cycle", "exit"}
            [] at = "cycle" -> at' \in {"timers", "panic"}
            [] at = "timers" -> at' = "render"
            [] at = "render" -> at' = "top"
            [] OTHER -> TRUE]_vars

StepKeyPolled == \E i \in 1..Len(PolledEvents) : PolledEvents[i] = KeyDown("K")

(* C30: in the debug loop a cycle starts only from the wait for the step key,
   with the step flag set, and takes the flag down; the flag goes up only in a
   poll that meets a press of the step key; from the cycle to the poll after it
   the flag is down, so presses polled before a cycle release that one cycle
   only; a quit signal polled while waiting leaves the loop with no further
   cycle. *)
SingleStepGated ==
    [][mode = "debug" =>
          /\ (at # "cycle" /\ at' = "cycle") =>
                at = "wait" /\ chip8.next_step /\ ~chip8'.next_step
          /\ (~chip8.next_step /\ chip8'.next_step) => StepKeyPolled
          /\ (at = "cycle" \/ (at \in {"render", "input"} /\ last.fetched)) =>
                ~chip8.next_step
          /\ (at = "wait" /\ \E i \in 1..Len(PolledEvents) : QuitSignal(PolledEvents[i])) =>
                at' = "exit" /\ last' = last
          /\ at = "exit" => (at' = "exit" /\ last' = last /\ chip8' = chip8)]_vars

(* the debug loop waits again after its first cycle, every event of the host
   polled and the step flag down *)
SingleStepGatedWitness ==
    /\ mode = "debug" /\ at = "wait"
    /\ Completed /\ last.pc = ROM_ADDR
    /\ ~chip8.next_step
    /\ host.events = <<>> /\ queue = <<>>

(* a second cycle released by a press polled after the first, and the loop left
   from the wait before any cycle *)
SecondStepExample ==
    /\ mode = "debug" /\ Completed /\ last.pc = ROM_ADDR + 2 /\ last2.pc = ROM_ADDR

----------------------------------------------------------------------------
(* The keypad: runs in which the host presses and releases every key *)

(* Vx values for the key instructions: keys 0, 5, 12, 15 and two values that
   name no key *)
KeyVals == {0, 5, 12, 15, 16, 255}

(* V1 = v, then Ex9E or ExA1 on V1 again and again, skipped word or not *)
KeySkipRom(optype, v) ==
    Flatten(<<InsKK(6, 1, v), InsKK(14, 1, optype), InsAddr(1, ROM_ADDR + 2),
              InsAddr(1, ROM_ADDR + 2)>>)

KeySkipRoms == {KeySkipRom(optype, v) : optype \in {158, 161}, v \in KeyVals}

(* each key pressed, each key pressed and released, a release with no press,
   two keys held at once, a key that is bound to nothing *)
KeyScripts ==
    {[events |-> <<KeyDown(kn)>>, ticks |-> 0] : kn \in KeyNames}
    \cup {[events |-> <<KeyDown(kn), KeyUp(kn)>>, ticks |-> 0] : kn \in KeyNames}
    \cup {[events |-> <<KeyUp("Q")>>, ticks |-> 0],
          [events |-> <<KeyDown("Num4"), KeyDown("X"), KeyUp("Num4")>>, ticks |-> 0],
          [events |-> <<KeyDown("P"), KeyDown("W")>>, ticks |-> 0],
          [events |-> <<KeyDown("V"), QuitEvent>>, ticks |-> 0]}

InitKeys ==
    \/ InitTour
    \/ InitState({KeySkipRom(158, 5)}, {"run"}, {TRUE}, KeyScripts)
    \/ InitState(KeySkipRoms \cup GlyphRoms, {"run"}, {TRUE},
                 {NoHost, [events |-> <<KeyDown("X")>>, ticks |-> 0],
                  [events |-> <<KeyDown("W"), KeyUp("W")>>, ticks |-> 0],
                  [events |-> <<KeyDown("Num4")>>, ticks |-> 0],
                  [events |-> <<KeyDown("V")>>, ticks |-> 0]})

SpecKeys == InitKeys /\ [][Next]_vars

(* the keyboard rows 1 2 3 4 / Q W E R / A S D F / Z X C V and the keypad
   indices 1 2 3 C / 4 5 6 D / 7 8 9 E / A 0 B F they stand for *)
HostKeyRows ==
    <<"Num1", "Num2", "Num3", "Num4", "Q", "W", "E", "R",
      "A", "S", "D", "F", "Z", "X", "C", "V">>

PadRows == <<1, 2, 3, 12, 4, 5, 6, 13, 7, 8, 9, 14, 10, 0, 11, 15>>

IsTransitionOf(event, k) ==
    /\ event.kind \in {"KeyDown", "KeyUp"}
    /\ \E i \in 1..16 : HostKeyRows[i] = event.keycode /\ PadRows[i] = k

(* the latch of key k after the events, v before them: the last transition of k *)
RECURSIVE LatchAfter(_, _, _)
LatchAfter(v, events, k) ==
    IF events = <<>> THEN v
    ELSE LatchAfter(IF IsTransitionOf(Head(events), k) THEN Head(events).kind = "KeyDown"
                    ELSE v,
                    Tail(events), k)

(* C31: every latch is up when the machine is built; a poll leaves each latch
   at the last transition polled for the key mapped to it (1 2 3 4 / Q W E R /
   A S D F / Z X C V to 1 2 3 C / 4 5 6 D / 7 8 9 E / A 0 B F), unchanged if
   there is none, and changes no register, memory byte or framebuffer cell; no
   other step changes a latch. *)
KeypadLatch ==
    /\ \A k \in 0..15 : ~chip8.keys[k]
    /\ [][/\ \A k \in 0..15 : chip8'.keys[k] = LatchAfter(chip8.keys[k], PolledEvents, k)
          /\ PolledEvents # <<>> =>
                /\ chip8'.reg = chip8.reg
                /\ chip8'.mem = chip8.mem
                /\ chip8'.display = chip8.display
                /\ chip8'.display_updated = chip8.display_updated]_vars

(* the key 4 of the host has been polled down: latch C alone is set *)
KeypadLatchWitness ==
    /\ queue = <<>> /\ host.events = <<>>
    /\ \A k \in 0..15 : chip8.keys[k] = (k = 12)

(* two keys were held and the first released: latch 0 alone is set at the end *)
KeyHeldExample ==
    /\ queue = <<>> /\ host.events = <<>>
    /\ rom = KeySkipRom(158, 5)
    /\ \A k \in 0..15 : chip8.keys[k] = (k = 0)

(* latches C and 0 are both set *)
TwoKeysDownExample == chip8.keys[12] /\ chip8.keys[0]

IsKeySkip(instruction) == OpType(instruction) = 14 /\ LowByte(instruction) \in {158, 161}

(* the key instruction of the last cycle with the other of the two codes *)
OtherKeySkip == last.instruction - LowByte(last.instruction)
                    + (IF LowByte(last.instruction) = 158 THEN 161 ELSE 158)

(* C32: with Vx in 0..15, Ex9E leaves PC two words past the instruction iff key
   Vx is latched down and one word past it otherwise, ExA1 iff key Vx is up; on
   the same state the other of the two codes does the opposite; the keypad,
   the registers other than PC, the stack, memory and the framebuffer are
   unchanged. *)
KeySkips ==
    (Completed /\ IsKeySkip(last.instruction) /\ pre.reg.reg_gp[NibX(last.instruction)] <= 15) =>
        LET down == pre.keys[pre.reg.reg_gp[NibX(last.instruction)]]
            skips == IF LowByte(last.instruction) = 158 THEN down ELSE ~down
            other == op_e(increment_pc(pre).c, OtherKeySkip)
        IN  /\ chip8.reg.reg_pc = last.pc + (IF skips THEN 4 ELSE 2)
            /\ other.ok /\ other.c.reg.reg_pc = last.pc + (IF skips THEN 2 ELSE 4)
            /\ chip8.reg.reg_gp = pre.reg.reg_gp
            /\ chip8.reg.reg_i = pre.reg.reg_i
            /\ chip8.reg.reg_sp = pre.reg.reg_sp
            /\ chip8.reg.stack = pre.reg.stack
            /\ chip8.mem = pre.mem
            /\ chip8.display = pre.display
            /\ CycleJustRan =>
                  /\ chip8.keys = pre.keys
                  /\ chip8.reg.reg_delay = pre.reg.reg_delay
                  /\ chip8.reg.reg_sound = pre.reg.reg_sound

(* Ex9E on V1 = 5 with key 5 down has skipped *)
KeySkipsWitness ==
    /\ Completed /\ CycleJustRan
    /\ last.instruction = 57758                     \* E19E
    /\ pre.reg.reg_gp[1] = 5 /\ pre.keys[5]
    /\ chip8.reg.reg_pc = last.pc + 4

(* ExA1 on V1 = 12 with key C down has not skipped *)
SknpKeyDownExample ==
    /\ Completed
    /\ last.instruction = 57761                     \* E1A1
    /\ pre.reg.reg_gp[1] = 12 /\ pre.keys[12]
    /\ chip8.reg.reg_pc = last.pc + 2

(* ExA1 on V1 = 15 with key F up has skipped, Ex9E on V1 = 0 with key 0 up has not *)
SknpKeyUpExample ==
    /\ Completed
    /\ last.instruction = 57761
    /\ pre.reg.reg_gp[1] = 15 /\ ~pre.keys[15]
    /\ chip8.reg.reg_pc = last.pc + 4

SkpKeyUpExample ==
    /\ Completed
    /\ last.instruction = 57758
    /\ pre.reg.reg_gp[1] = 0 /\ ~pre.keys[0]
    /\ chip8.reg.reg_pc = last.pc + 2

(* C40: Ex9E, ExA1 and Fx29 on a Vx above 15 stop the machine: the cycle does
   not complete, PC stays one word past the instruction (no skip), and I, the
   general registers and the keypad are as they were. *)
SmallIndexIsFatal ==
    (/\ last.fetched
     /\ IsKeySkip(last.instruction) \/ IsFx(last.instruction, 41)
     /\ pre.reg.reg_gp[NibX(last.instruction)] > 15) =>
        /\ ~last.ok /\ panicked /\ at = "panic"
        /\ chip8.reg.reg_pc = last.pc + 2
        /\ chip8.reg.reg_i = pre.reg.reg_i
        /\ chip8.reg.reg_gp = pre.reg.reg_gp
        /\ chip8.keys = pre.keys

(* Ex9E on V1 = 16 with key 0 down has stopped the machine *)
SmallIndexIsFatalWitness ==
    /\ panicked /\ last.fetched /\ ~last.ok
    /\ last.instruction = 57758
    /\ pre.reg.reg_gp[1] = 16 /\ pre.keys[0]

(* ExA1 on V1 = 255, and Fx29 on a register holding 16, have stopped the machine *)
SknpIndexExample ==
    /\ panicked /\ ~last.ok /\ last.instruction = 57761 /\ pre.reg.reg_gp[1] = 255

GlyphIndexExample ==
    /\ panicked /\ ~last.ok /\ IsFx(last.instruction, 41)
    /\ pre.reg.reg_gp[NibX(last.instruction)] = 16
    /\ chip8.reg.reg_i = pre.reg.reg_i

----------------------------------------------------------------------------
(* Loads and adds that define no flag *)

(* 6xkk, 7xkk, 8xy0, 8xy1, 8xy2, Cxkk, Fx07, Fx65 with x below F; Annn, Fx15,
   Fx18, Fx1E, Fx29, Fx33, Fx55 *)
DefinesNoFlag(instruction) ==
    \/ OpType(instruction) \in {6, 7, 12} /\ NibX(instruction) < 15
    \/ OpType(instruction) = 8 /\ NibN(instruction) \in {0, 1, 2} /\ NibX(instruction) < 15
    \/ OpType(instruction) = 15 /\ LowByte(instruction) \in {7, 101} /\ NibX(instruction) < 15
    \/ OpType(instruction) = 10
    \/ OpType(instruction) = 15 /\ LowByte(instruction) \in {21, 24, 30, 41, 51, 85}

(* C33: a load or add that defines no flag and does not target VF leaves
   register 15 as it was, whether the cycle completes or not. *)
LoadsKeepFlag ==
    (last.fetched /\ DefinesNoFlag(last.instruction)) =>
        chip8.reg.reg_gp[15] = pre.reg.reg_gp[15]

(* Fx1E took I from 4000 past 4095 and VF still holds 200 *)
LoadsKeepFlagWitness ==
    /\ Completed /\ IsFx(last.instruction, 30)
    /\ pre.reg.reg_i = 4000 /\ chip8.reg.reg_i = 4200
    /\ pre.reg.reg_gp[15] = 200 /\ chip8.reg.reg_gp[15] = 200

(* 7EFF wrapped VE from 9 to 8, and FE65 loaded V0..VE, with VF = 200 kept *)
AddWrapKeepsFlagExample ==
    /\ Completed /\ last.instruction = 32511
    /\ pre.reg.reg_gp[14] = 9 /\ chip8.reg.reg_gp[14] = 8
    /\ chip8.reg.reg_gp[15] = 200

LoadRegsKeepsFlagExample ==
    /\ Completed /\ last.instruction = 65125
    /\ chip8.reg.reg_gp[1] # pre.reg.reg_gp[1]
    /\ chip8.reg.reg_gp[15] = 200

(* C34: Fx1E always completes and leaves I = (I + Vx) mod 65536. *)
AddIWraps ==
    (last.fetched /\ IsFx(last.instruction, 30)) =>
        /\ last.ok
        /\ chip8.reg.reg_i =
              (pre.reg.reg_i + pre.reg.reg_gp[NibX(last.instruction)]) % 65536

(* repeated Fx1E has brought I to 0xFFFF *)
AddIAtTopExample == Completed /\ IsFx(last.instruction, 30) /\ chip8.reg.reg_i = 65535

(* in a build without overflow checks the next Fx1E wraps I to 254 *)
AddIWrappedExample ==
    /\ Completed /\ IsFx(last.instruction, 30)
    /\ pre.reg.reg_i = 65535 /\ chip8.reg.reg_i = 254

(* the flag 8xy4, 8xy5, 8xy6, 8xy7, 8xyE define on the operands of the last cycle *)
AluFlag ==
    CASE NibN(last.instruction) = 4 -> AluVx + AluVy > 255
      [] NibN(last.instruction) = 5 -> AluVx > AluVy
      [] NibN(last.instruction) = 6 -> AluVx % 2 = 1
      [] NibN(last.instruction) = 7 -> AluVy > AluVx
      [] NibN(last.instruction) = 14 -> AluVx >= 128

(* C35: 8Fy4, 8Fy5, 8Fy6, 8Fy7 and 8FyE leave the flag in register 15, not the
   arithmetic result. *)
FlagSurvivesInVf ==
    (/\ Completed
     /\ OpType(last.instruction) = 8 /\ NibN(last.instruction) \in {4, 5, 6, 7, 14}
     /\ AluX = 15) => FlagIs(AluFlag)

(* 8F14 and 8F16 whose result is the flag itself: 0xFF + 0x02 gives 1 with a
   carry, 1 >> 1 gives 0 ... *)
FlagEqualsResultExample ==
    /\ Completed /\ IsAlu(last.instruction, 4) /\ AluX = 15
    /\ AluVx = 255 /\ AluVy = 2 /\ chip8.reg.reg_gp[15] = 1

(* ... and 8F14 on 10 + 5, which leaves 15 in VF *)
ResultInVfExample ==
    /\ Completed /\ IsAlu(last.instruction, 4) /\ AluX = 15
    /\ AluVx = 10 /\ AluVy = 5 /\ chip8.reg.reg_gp[15] = 15

----------------------------------------------------------------------------
(* The register dump and its reload *)

OverwriteVals == {0, 255}

(* the machine with V0..Vx overwritten with v *)
Overwritten(c, x, v) ==
    [c EXCEPT !.reg.reg_gp = [r \in 0..15 |-> IF r <= x THEN v ELSE c.reg.reg_gp[r]]]

(* C36: after Fx55 with I + x < 4096, overwriting V0..Vx and executing Fx65
   with the same x and I brings V0..Vx back to what they were before the Fx55;
   I is what it was before the Fx55. *)
DumpRoundTrip ==
    (/\ Completed /\ IsFx(last.instruction, 85)
     /\ pre.reg.reg_i + NibX(last.instruction) < MEM_SIZE) =>
        /\ chip8.reg.reg_i = pre.reg.reg_i
        /\ \A v \in OverwriteVals :
              LET x == NibX(last.instruction)
                  r == op_fx65(Overwritten(chip8, x, v), x, chip8.reg.reg_i, 0)
              IN  /\ r.ok
                  /\ r.c.reg.reg_i = pre.reg.reg_i
                  /\ \A k \in 0..x : r.c.reg.reg_gp[k] = pre.reg.reg_gp[k]

(* F155 ... F165 at I = 0x300 has run: V0 is back at 11, V1 is 0 and was 22 *)
DumpLosesLastExample ==
    /\ Completed /\ last.instruction = 61797 /\ last2.instruction = 24832
    /\ pre.reg.reg_i = 768
    /\ chip8.reg.reg_gp[0] = 11 /\ chip8.reg.reg_gp[1] = 0

----------------------------------------------------------------------------
(* What a faulting instruction leaves behind *)

(* C39: when a sprite read, an Fx33 or Fx55 write or an Fx65 read reaches an
   address >= 4096, the cycle is fatal and memory, V0..VF and the framebuffer
   are as they were before the instruction. *)
FaultIsAtomic ==
    (last.fetched /\ HighestAccess(pre, last.instruction) >= MEM_SIZE) =>
        /\ ~last.ok /\ panicked
        /\ chip8.mem = pre.mem
        /\ chip8.reg.reg_gp = pre.reg.reg_gp
        /\ chip8.display = pre.display

(* Fx33 on 18 at I = 0xFFE stored the tens digit at 0xFFF before it stopped *)
PartialBcdExample ==
    /\ last.fetched /\ ~last.ok /\ IsFx(last.instruction, 51)
    /\ pre.reg.reg_i = 4094
    /\ MemAt(pre.mem, 4095) = 0 /\ MemAt(chip8.mem, 4095) = 1

(* Fx65 at I = 0xFFF loaded V0 before it stopped on V1 *)
PartialLoadExample ==
    /\ last.fetched /\ ~last.ok /\ last.instruction = 61797
    /\ pre.reg.reg_i = 4095
    /\ chip8.reg.reg_gp[0] # pre.reg.reg_gp[0]

(* a sprite read beyond memory stopped the machine with VF and the display untouched *)
SpriteFaultExample ==
    /\ last.fetched /\ ~last.ok /\ IsDrw(last.instruction)
    /\ HighestAccess(pre, last.instruction) >= MEM_SIZE
    /\ chip8.reg.reg_gp = pre.reg.reg_gp /\ chip8.display = pre.display

----------------------------------------------------------------------------
(* The timers *)

CountDown(v) == IF v > 0 THEN v - 1 ELSE 0

(* the step is the timer update of the loop, taken with diff >= SKIP_TICKS *)
IsTimerTick == at = "timers" /\ at' # "timers" /\ diff >= SKIP_TICKS

(* the step is a cycle that executes Fx15 or Fx18 *)
IsTimerWrite ==
    at = "cycle" /\ at' # "cycle" /\ last'.fetched /\ WritesTimer(last'.instruction)

(* C37: a timer tick lowers each timer by exactly 1 when it is not 0 and leaves
   it at 0 when it is; no other step than a tick, Fx15 or Fx18 changes a timer,
   so a timer set to v is 0 after exactly v ticks and stays 0; Fx15 / Fx18 set
   the timer to Vx and Fx07 reads the current count of the delay timer. *)
TimersCountDown ==
    [][/\ IsTimerTick =>
             /\ chip8'.reg.reg_delay = CountDown(chip8.reg.reg_delay)
             /\ chip8'.reg.reg_sound = CountDown(chip8.reg.reg_sound)
       /\ (~IsTimerTick /\ ~IsTimerWrite) =>
             /\ chip8'.reg.reg_delay = chip8.reg.reg_delay
             /\ chip8'.reg.reg_sound = chip8.reg.reg_sound
       /\ (at = "cycle" /\ at' # "cycle" /\ last'.fetched /\ last'.ok) =>
             LET x == NibX(last'.instruction)
             IN  /\ IsFx(last'.instruction, 7) =>
                       chip8'.reg.reg_gp[x] = chip8.reg.reg_delay
                 /\ IsFx(last'.instruction, 21) =>
                       /\ chip8'.reg.reg_delay = chip8.reg.reg_gp[x]
                       /\ chip8'.reg.reg_sound = chip8.reg.reg_sound
                 /\ IsFx(last'.instruction, 24) =>
                       /\ chip8'.reg.reg_sound = chip8.reg.reg_gp[x]
                       /\ chip8'.reg.reg_delay = chip8.reg.reg_delay]_vars

(* the delay timer was set to 2 two cycles ago and two ticks have brought it
   to 0 *)
TimersCountDownWitness ==
    /\ rom = HostRom /\ mode = "run"
    /\ at = "render" /\ Completed /\ last.pc = ROM_ADDR + 4
    /\ IsFx(last2.instruction, 21) /\ pre2.reg.reg_gp[0] = 2
    /\ chip8.reg.reg_delay = 0

(* a tick on a timer at 0 has left it at 0 *)
TimerStaysZeroExample ==
    /\ rom = HostRom /\ mode = "run"
    /\ at = "render" /\ Completed /\ last.pc = ROM_ADDR + 8
    /\ chip8.reg.reg_delay = 0 /\ chip8.reg.reg_sound = 0

(* Fx07 read the delay timer on its way down: 3 was set, V1 = 1 two ticks
   later, V2 = 0 after the third tick and V3 = 0 after the fourth *)
TimerReadExample ==
    /\ rom = TimerRom(3) /\ Completed /\ last.instruction = 62471
    /\ chip8.reg.reg_gp[1] = 1 /\ chip8.reg.reg_gp[2] = 0 /\ chip8.reg.reg_gp[3] = 0

(* a timer set to 255 has come down to 0 and the loop goes on *)
TimerLongCountExample ==
    /\ rom = TimerRom(255) /\ at = "top"
    /\ chip8.reg.reg_delay = 0 /\ chip8.reg.reg_sound = 0

----------------------------------------------------------------------------
(* Presentation of the framebuffer *)

(* the window shows the framebuffer and the dirty flag is down *)
FrameShown == ~chip8.display_updated /\ window = chip8.display

(* C38: when a cycle is about to execute, and when the loop has been left on a
   quit signal, every change of the framebuffer has been presented and the
   dirty flag is down. *)
FrameReachesPresenter == at \in {"cycle", "exit"} => FrameShown

(* the part of C38 about the next cycle alone *)
FrameShownBeforeCycle == at = "cycle" => FrameShown

(* run() has been left right after a DRW that lit cells the window never showed *)
LastFrameLostExample ==
    /\ mode = "run" /\ at = "exit"
    /\ Completed /\ IsDrw(last.instruction)
    /\ chip8.display_updated /\ chip8.display # {} /\ window = {}

(* _run_debug() has been left right after a DRW and the window shows it *)
DebugFrameShownExample ==
    /\ mode = "debug" /\ at = "exit"
    /\ Completed /\ IsDrw(last.instruction)
    /\ chip8.display # {} /\ FrameShown

====
